---------------------------- MODULE Spec2Model ----------------------------
(***************************************************************************)
(* A model of the PLC analyzer's core:                                     *)
(*   - the shard packer of src/src/xml_processor/parser.py                 *)
(*     (PLCXMLParser._generate_shards and what it calls), specification    *)
(*     SpecPack;                                                           *)
(*   - the dispatch of shards to the analysis service of                   *)
(*     src/src/ai_engine/deepseek_client.py (DeepSeekClient and            *)
(*     RateLimiter), specification SpecDispatch;                           *)
(*   - the fusion of the shards' outcomes into one report of               *)
(*     src/src/analysis/result_fusion.py (ResultFusion), specification     *)
(*     SpecFusion.                                                         *)
(***************************************************************************)
EXTENDS Integers, Sequences, FiniteSets, TLC

VARIABLES
    \* ---- shard packer (parser.py) ----
    all_data_elements,      \* list(global_variables.values()) + list(data_types.values())
    all_program_elements,   \* list(function_blocks.values()) + list(programs.values())
    max_shard_lines,        \* config.xml_processing.max_shard_lines
    ppc,                    \* position of _generate_shards: "sort", "pack", "done"
    group,                  \* the group being packed: "data_definition" or "program_logic"
    remaining,              \* _sort_elements_by_dependencies: remaining
    sorted_elements,        \* _sort_elements_by_dependencies: sorted_elements
    passes,                 \* iterations of the while loop of the current sort
    next_index,             \* position of the for loop over sorted_elements
    current_elements,       \* _create_*_shards: current_elements
    current_token_count,    \* _create_*_shards: current_token_count
    shard_counter,          \* _create_*_shards: shard_counter
    shards,                 \* _generate_shards: shards
    run,                    \* which call of _generate_shards on this input (1 or 2)
    first_shards,           \* what the first call returned
    \* ---- dispatch (deepseek_client.py) ----
    max_workers,            \* config.parallel.max_workers
    max_requests,           \* RateLimiter.max_requests (max_concurrent_requests)
    retry_times,            \* config.deepseek.retry_times
    current_requests,       \* RateLimiter.current_requests
    results_cache,          \* DeepSeekClient.results_cache: cache key -> AnalysisResult
    batch,                  \* analyze_shard_batch: shards
    analysis_type,          \* analyze_shard_batch: analysis_type
    task,                   \* the future of each shard of the batch and its worker
    bpc,                    \* position of analyze_shard_batch
    results,                \* analyze_shard_batch: results
    collected,              \* the futures as_completed has yielded
    deadline_expired,       \* as_completed ran past worker_timeout in this batch
    batches,                \* calls of analyze_shard_batch so far
    \* ---- fusion (result_fusion.py) ----
    fusion_results,         \* fuse_analysis_results: results
    fpc,                    \* position of fuse_analysis_results
    successful_results,     \* fuse_analysis_results: successful_results
    extract_index,          \* position of the for loop of _extract_findings
    all_findings,           \* fuse_analysis_results: all_findings
    deduplicated_findings,  \* fuse_analysis_results: deduplicated_findings
    sorted_findings,        \* fuse_analysis_results: sorted_findings
    report,                 \* the FusedResult returned
    similarity_threshold,   \* ResultFusion.similarity_threshold
    similar_findings,       \* the lists similar_findings that _merge_similar_findings
                            \* built in the last _deduplicate_findings, in order
    \* ---- analyze_file (main.py) ----
    shard_dicts,            \* analyze_file: shard_dicts
    batch_size,             \* config.parallel.batch_size
    batch_start,            \* analyze_file: i, the variable of the for loop
    all_results,            \* analyze_file: all_results
    mpc,                    \* position of analyze_file
    pauses,                 \* calls of time.sleep so far
    dispatched              \* the batches passed to analyze_shard_batch so far

packVars == <<all_data_elements, all_program_elements, max_shard_lines, ppc, group,
              remaining, sorted_elements, passes, next_index, current_elements,
              current_token_count, shard_counter, shards, run, first_shards>>

dispVars == <<max_workers, max_requests, retry_times, current_requests, results_cache,
              batch, analysis_type, task, bpc, results, collected, deadline_expired,
              batches>>

fuseVars == <<fusion_results, fpc, successful_results, extract_index, all_findings,
              deduplicated_findings, sorted_findings, report, similarity_threshold,
              similar_findings>>

mainVars == <<shard_dicts, batch_size, batch_start, all_results, mpc, pauses,
              dispatched>>

vars == <<packVars, dispVars, fuseVars, mainVars>>

-----------------------------------------------------------------------------
(* Bounds of the model *)

\* the number of extracted entities of a document
MaxEntities == 3

\* the largest max_shard_lines a configuration sets
MaxShardLines == 1

\* the names of the entities, in extraction order
NamePool == <<"A", "B", "C", "D", "E">>

EntityNames == {NamePool[i] : i \in 1..MaxEntities}

\* a dependency token that names no entity of the document
UnknownToken == "X"

Tokens == EntityNames \cup {UnknownToken}

\* the number of dependency tokens of one entity
MaxDeps == 2

DepSets == {d \in SUBSET Tokens : Cardinality(d) <= MaxDeps}

\* non-empty lines of an entity's text: up to one more than any budget
LineCounts == 0..(MaxShardLines + 1)

-----------------------------------------------------------------------------
(* Helpers on sequences *)

RECURSIVE SumSizes(_)
SumSizes(s) == IF s = <<>> THEN 0 ELSE Head(s).size_estimate + SumSizes(Tail(s))

RECURSIVE Concat(_)
Concat(ss) == IF ss = <<>> THEN <<>> ELSE Head(ss) \o Concat(Tail(ss))

\* list.remove(x): the list without its first element equal to x
RECURSIVE RemoveFirst(_, _)
RemoveFirst(s, x) ==
    IF s = <<>> THEN <<>>
    ELSE IF Head(s) = x THEN Tail(s)
    ELSE <<Head(s)>> \o RemoveFirst(Tail(s), x)

RECURSIVE RemoveAll(_, _)
RemoveAll(s, xs) ==
    IF xs = <<>> THEN s ELSE RemoveAll(RemoveFirst(s, Head(xs)), Tail(xs))

-----------------------------------------------------------------------------
(* parser.py *)

\* _estimate_tokens: 18 tokens for each non-empty line
TokensPerLine == 18

EstimateTokens(lines) == lines * TokensPerLine

\* the budget of a shard, as the packing loops compute it
Budget == max_shard_lines * TokensPerLine

\* PLCElement, the fields the packer reads
Element(n, deps, lines) ==
    [name |-> n, dependencies |-> deps, size_estimate |-> EstimateTokens(lines)]

\* f"{n:03d}"
Pad3(n) ==
    IF n < 10 THEN "00" \o ToString(n)
    ELSE IF n < 100 THEN "0" \o ToString(n)
    ELSE ToString(n)

ShardPrefix(g) == IF g = "data_definition" THEN "data_def_" ELSE "prog_logic_"

ShardId(g, n) == ShardPrefix(g) \o Pad3(n)

GroupList(g) == IF g = "data_definition" THEN all_data_elements ELSE all_program_elements

\* DepsReady that waits for no dependency
M_DepsReady_Always(element, rem) == TRUE

\* deps_ready of one element: no dependency names another element still remaining
DepsReady(element, rem) ==
    \A dep \in element.dependencies :
        ~ \E i \in 1..Len(rem) : rem[i] # element /\ rem[i].name = dep

\* the ready elements of a pass, in the order of remaining
ReadyElements(rem) == SelectSeq(rem, LAMBDA e : DepsReady(e, rem))

\* ForcedElements without the fallback of line 475: nothing is placed
M_ForcedElements_None(rem) == <<>>

\* what a pass places when no element is ready (a dependency cycle)
ForcedElements(rem) == <<rem[1]>>

\* the elements one pass of the while loop places
PassElements(rem) ==
    IF ReadyElements(rem) = <<>> THEN ForcedElements(rem) ELSE ReadyElements(rem)

\* _create_shard
CreateShard(shard_id, shard_type, elements) ==
    LET dependencies == UNION {elements[i].dependencies : i \in 1..Len(elements)}
        element_names == {elements[i].name : i \in 1..Len(elements)}
    IN  [shard_id |-> shard_id,
         shard_type |-> shard_type,
         elements |-> elements,
         dependencies |-> dependencies \ element_names,
         token_estimate |-> SumSizes(elements)]

\* MustClose that looks at the running total only, not at the element to add
M_MustClose_TotalOnly(element) ==
    /\ current_token_count > Budget
    /\ current_elements # <<>>

\* the condition that closes the current shard before an element is added
MustClose(element) ==
    /\ current_token_count + element.size_estimate > Budget
    /\ current_elements # <<>>

-----------------------------------------------------------------------------
(* deepseek_client.py: data *)

\* the shards of one call of analyze_shard_batch
MaxBatchLen == 2

\* calls of analyze_shard_batch on one client
MaxBatches == 2

\* the largest max_workers a configuration sets
MaxWorkers == 2

\* the largest max_concurrent_requests a configuration sets
MaxRequests == 2

\* the largest retry_times a configuration sets
MaxRetry == 2

\* The shard dicts a caller passes: two that differ in content only, and one
\* that json.dumps cannot serialize.
ShardPool ==
    { [shard_id |-> "data_def_001", content |-> "v1", serializable |-> TRUE],
      [shard_id |-> "data_def_001", content |-> "v2", serializable |-> TRUE],
      [shard_id |-> "prog_logic_001", content |-> "v1", serializable |-> FALSE] }

AnalysisTypes == {"alarm", "safety"}

\* the exceptions a call of the service raises
FailureReasons == {"timeout", "rate limit"}

\* message.content of a response: a text, or None
Responses == {"payload", "None"}

\* AnalysisResult, the fields dispatch sets
Outcome(id, ok, text, err) ==
    [shard_id |-> id, success |-> ok, content |-> text, error_message |-> err]

\* no result yet
NoOutcome == Outcome("", FALSE, "", "")

\* the AnalysisResult of the except branches (lines 80-85 and 129-135)
FailedOutcome(id, err) == Outcome(id, FALSE, "", err)

\* _generate_cache_key: the md5 of json.dumps(shard, sort_keys=True) +
\* analysis_type, which is one value per shard content and analysis type
\* (md5 collisions apart)
CacheKey(shard, atype) ==
    <<shard.shard_id, shard.content, atype>>

\* a worker that has not started
QueuedTask ==
    [pc |-> "queued", attempts |-> 0, errors |-> <<>>, response |-> "",
     acquired |-> 0, released |-> 0, cached_at_start |-> FALSE,
     result |-> NoOutcome, exception |-> ""]

\* the dispatch variables of a specification that does not dispatch
DispatchIdle ==
    /\ max_workers = 1
    /\ max_requests = 1
    /\ retry_times = 1
    /\ current_requests = 0
    /\ results_cache = <<>>
    /\ batch = <<>>
    /\ analysis_type = "alarm"
    /\ task = <<>>
    /\ bpc = "idle"
    /\ results = <<>>
    /\ collected = {}
    /\ deadline_expired = FALSE
    /\ batches = 0

\* no report yet
NoReport ==
    [findings |-> <<>>, summary |-> <<>>, overall_confidence |-> [n |-> 0, d |-> 1],
     statistics |-> <<>>, processing_info |-> <<>>]

\* the fusion variables of a specification that does not fuse
FuseIdle ==
    /\ fusion_results = <<>>
    /\ fpc = "idle"
    /\ successful_results = <<>>
    /\ extract_index = 1
    /\ all_findings = <<>>
    /\ deduplicated_findings = <<>>
    /\ sorted_findings = <<>>
    /\ report = NoReport
    \* 0.8 (line 48), as the fraction Number(8, 10) is
    /\ similarity_threshold = [n |-> 4, d |-> 5]
    /\ similar_findings = <<>>

\* the variables of analyze_file in a specification that does not run it
MainIdle ==
    /\ shard_dicts = <<>>
    /\ batch_size = 1
    /\ batch_start = 0
    /\ all_results = <<>>
    /\ mpc = "idle"
    /\ pauses = 0
    /\ dispatched = <<>>

-----------------------------------------------------------------------------
(* The packer as a state machine *)

\* The entities of a document: the first k of them are data definitions, the
\* others program logic; each has any dependency tokens and any size.
InitPack ==
    \E n \in 0..MaxEntities : \E k \in 0..n :
    \E deps \in [1..n -> DepSets] : \E lines \in [1..n -> LineCounts] :
        /\ all_data_elements = [i \in 1..k |-> Element(NamePool[i], deps[i], lines[i])]
        /\ all_program_elements =
               [i \in 1..(n - k) |-> Element(NamePool[k + i], deps[k + i], lines[k + i])]
        /\ max_shard_lines \in 1..MaxShardLines
        /\ ppc = "sort"
        /\ group = "data_definition"
        /\ remaining = all_data_elements
        /\ sorted_elements = <<>>
        /\ passes = 0
        /\ next_index = 1
        /\ current_elements = <<>>
        /\ current_token_count = 0
        /\ shard_counter = 1
        /\ shards = <<>>
        /\ run = 1
        /\ first_shards = <<>>
        /\ DispatchIdle
        /\ FuseIdle
        /\ MainIdle

\* SortPass that breaks a cycle by placing any remaining element
M_SortPass_AnyForced ==
    /\ ppc = "sort"
    /\ remaining # <<>>
    /\ \E j \in 1..Len(remaining) :
         LET ready_elements == IF ReadyElements(remaining) = <<>>
                               THEN <<remaining[j]>>
                               ELSE ReadyElements(remaining)
         IN  /\ sorted_elements' = sorted_elements \o ready_elements
             /\ remaining' = RemoveAll(remaining, ready_elements)
    /\ passes' = passes + 1
    /\ UNCHANGED <<all_data_elements, all_program_elements, max_shard_lines, ppc, group,
                   next_index, current_elements, current_token_count, shard_counter,
                   shards, run, first_shards>>
    /\ UNCHANGED <<dispVars, fuseVars, mainVars>>

\* one iteration of the while loop of _sort_elements_by_dependencies
SortPass ==
    /\ ppc = "sort"
    /\ remaining # <<>>
    /\ LET ready_elements == PassElements(remaining)
       IN  /\ sorted_elements' = sorted_elements \o ready_elements
           /\ remaining' = RemoveAll(remaining, ready_elements)
    /\ passes' = passes + 1
    /\ UNCHANGED <<all_data_elements, all_program_elements, max_shard_lines, ppc, group,
                   next_index, current_elements, current_token_count, shard_counter,
                   shards, run, first_shards>>
    /\ UNCHANGED <<dispVars, fuseVars, mainVars>>

\* SortReturn that starts the numbering of a group where the group before it
\* stopped, as one counter for both groups would
M_SortReturn_KeepCounter ==
    /\ ppc = "sort"
    /\ remaining = <<>>
    /\ ppc' = "pack"
    /\ next_index' = 1
    /\ current_elements' = <<>>
    /\ current_token_count' = 0
    /\ shard_counter' = Len(shards) + 1
    /\ UNCHANGED <<all_data_elements, all_program_elements, max_shard_lines, group,
                   remaining, sorted_elements, passes, shards, run, first_shards>>
    /\ UNCHANGED <<dispVars, fuseVars, mainVars>>

\* the while loop ends and the sorted list is returned to the packing loop
SortReturn ==
    /\ ppc = "sort"
    /\ remaining = <<>>
    /\ ppc' = "pack"
    /\ next_index' = 1
    /\ current_elements' = <<>>
    /\ current_token_count' = 0
    /\ shard_counter' = 1
    /\ UNCHANGED <<all_data_elements, all_program_elements, max_shard_lines, group,
                   remaining, sorted_elements, passes, shards, run, first_shards>>
    /\ UNCHANGED <<dispVars, fuseVars, mainVars>>

\* one iteration of the for loop of _create_data_definition_shards /
\* _create_program_logic_shards
PackStep ==
    /\ ppc = "pack"
    /\ next_index <= Len(sorted_elements)
    /\ LET element == sorted_elements[next_index]
       IN  IF MustClose(element)
           THEN /\ shards' = Append(shards,
                       CreateShard(ShardId(group, shard_counter), group, current_elements))
                /\ current_elements' = <<element>>
                /\ current_token_count' = element.size_estimate
                /\ shard_counter' = shard_counter + 1
           ELSE /\ current_elements' = Append(current_elements, element)
                /\ current_token_count' = current_token_count + element.size_estimate
                /\ UNCHANGED <<shards, shard_counter>>
    /\ next_index' = next_index + 1
    /\ UNCHANGED <<all_data_elements, all_program_elements, max_shard_lines, ppc, group,
                   remaining, sorted_elements, passes, run, first_shards>>
    /\ UNCHANGED <<dispVars, fuseVars, mainVars>>

\* PackFinish without lines 399-406 / 443-450: the open shard is not appended
M_PackFinish_NoLastShard ==
    /\ ppc = "pack"
    /\ next_index > Len(sorted_elements)
    /\ shards' = shards
    /\ current_elements' = <<>>
    /\ current_token_count' = 0
    /\ IF group = "data_definition"
       THEN /\ group' = "program_logic"
            /\ ppc' = "sort"
            /\ remaining' = all_program_elements
            /\ sorted_elements' = <<>>
            /\ passes' = 0
       ELSE /\ ppc' = "done"
            /\ UNCHANGED <<group, remaining, sorted_elements, passes>>
    /\ UNCHANGED <<all_data_elements, all_program_elements, max_shard_lines,
                   next_index, shard_counter, run, first_shards>>
    /\ UNCHANGED <<dispVars, fuseVars, mainVars>>

\* the last shard of a group; _generate_shards then goes on with the next group
PackFinish ==
    /\ ppc = "pack"
    /\ next_index > Len(sorted_elements)
    /\ shards' = IF current_elements # <<>>
                 THEN Append(shards,
                        CreateShard(ShardId(group, shard_counter), group, current_elements))
                 ELSE shards
    /\ current_elements' = <<>>
    /\ current_token_count' = 0
    /\ IF group = "data_definition"
       THEN /\ group' = "program_logic"
            /\ ppc' = "sort"
            /\ remaining' = all_program_elements
            /\ sorted_elements' = <<>>
            /\ passes' = 0
       ELSE /\ ppc' = "done"
            /\ UNCHANGED <<group, remaining, sorted_elements, passes>>
    /\ UNCHANGED <<all_data_elements, all_program_elements, max_shard_lines,
                   next_index, shard_counter, run, first_shards>>
    /\ UNCHANGED <<dispVars, fuseVars, mainVars>>

\* _generate_shards is called again on the same elements and configuration
SecondRun ==
    /\ ppc = "done"
    /\ run = 1
    /\ run' = 2
    /\ first_shards' = shards
    /\ shards' = <<>>
    /\ ppc' = "sort"
    /\ group' = "data_definition"
    /\ remaining' = all_data_elements
    /\ sorted_elements' = <<>>
    /\ passes' = 0
    /\ next_index' = 1
    /\ current_elements' = <<>>
    /\ current_token_count' = 0
    /\ shard_counter' = 1
    /\ UNCHANGED <<all_data_elements, all_program_elements, max_shard_lines>>
    /\ UNCHANGED <<dispVars, fuseVars, mainVars>>

\* one call of _generate_shards
NextPack == SortPass \/ SortReturn \/ PackStep \/ PackFinish

SpecPack == InitPack /\ [][NextPack]_vars

\* two calls of _generate_shards on the same elements
NextPackTwice == SortPass \/ SortReturn \/ PackStep \/ PackFinish \/ SecondRun

SpecPackTwice == InitPack /\ [][NextPackTwice]_vars

-----------------------------------------------------------------------------
(* Properties of the packer *)

ShardsOf(ss, g) == SelectSeq(ss, LAMBDA s : s.shard_type = g)

\* the members of the shards of a group, in shard order
Members(ss, g) ==
    LET gs == ShardsOf(ss, g)
    IN  Concat([i \in 1..Len(gs) |-> gs[i].elements])

Occurrences(e, s) == Cardinality({i \in 1..Len(s) : s[i] = e})

\* s holds every element of t exactly once and nothing else
IsPermutation(s, t) ==
    /\ Len(s) = Len(t)
    /\ \A i \in 1..Len(t) : Occurrences(t[i], s) = 1

Groups == {"data_definition", "program_logic"}

AllElements == all_data_elements \o all_program_elements

\* the elements of a list form a dependency cycle through all of them
ThreeCycle(l) ==
    /\ Len(l) = 3
    /\ l[1].dependencies = {l[2].name}
    /\ l[2].dependencies = {l[3].name}
    /\ l[3].dependencies = {l[1].name}

\* C1: when shard generation has returned, the shards of each category group
\* hold every entity of that group exactly once: none dropped, none twice.
C1_Partition ==
    ppc = "done" =>
        \A g \in Groups : IsPermutation(Members(shards, g), GroupList(g))

\* C1 witness: a data group of three entities in a dependency cycle was packed
\* into more than one shard.
C1_Witness ==
    /\ ppc = "done"
    /\ ThreeCycle(all_data_elements)
    /\ Len(shards) >= 2

\* C2: every shard is non-empty and its aggregate size is at most the budget
\* max_shard_lines * 18, unless it holds exactly one entity whose own size
\* exceeds the budget.
C2_ShardBudget ==
    \A i \in 1..Len(shards) :
        LET s == shards[i]
        IN  /\ s.elements # <<>>
            /\ s.token_estimate = SumSizes(s.elements)
            /\ \/ s.token_estimate <= Budget
               \/ /\ Len(s.elements) = 1
                  /\ s.elements[1].size_estimate > Budget

\* C2 witness: generation returned an oversized singleton shard and a shard of
\* two entities that fills the budget exactly.
C2_Witness ==
    /\ ppc = "done"
    /\ \E i \in 1..Len(shards) :
          Len(shards[i].elements) = 1 /\ shards[i].token_estimate > Budget
    /\ \E i \in 1..Len(shards) :
          Len(shards[i].elements) = 2 /\ shards[i].token_estimate = Budget

\* C3: the ordering loop terminates on every entity list, cycles included:
\* each pass of the loop places at least one not-yet-placed entity, so there are
\* at most as many passes as entities, and the order returned holds every
\* entity of the group exactly once.
C3_SortTerminates ==
    /\ [][passes' = passes + 1 => Len(remaining') < Len(remaining)]_vars
    /\ [](passes <= Len(GroupList(group)))
    /\ [](ppc = "pack" => IsPermutation(sorted_elements, GroupList(group)))

\* C3 witness: a cycle through three entities was ordered in three passes.
C3_Witness ==
    /\ ppc = "pack"
    /\ ThreeCycle(GroupList(group))
    /\ passes = 3
    /\ remaining = <<>>

-----------------------------------------------------------------------------
(* deepseek_client.py: analyze_shard_batch, analyze_single_shard, RateLimiter *)

\* the packer variables of a specification that does not pack
PackIdle ==
    /\ all_data_elements = <<>>
    /\ all_program_elements = <<>>
    /\ max_shard_lines = 1
    /\ ppc = "idle"
    /\ group = "data_definition"
    /\ remaining = <<>>
    /\ sorted_elements = <<>>
    /\ passes = 0
    /\ next_index = 1
    /\ current_elements = <<>>
    /\ current_token_count = 0
    /\ shard_counter = 1
    /\ shards = <<>>
    /\ run = 1
    /\ first_shards = <<>>

\* DeepSeekClient.__init__ and RateLimiter.__init__, under any configuration
InitDispatch ==
    /\ PackIdle
    /\ FuseIdle
    /\ MainIdle
    /\ max_workers \in 1..MaxWorkers
    /\ max_requests \in 1..MaxRequests
    /\ retry_times \in 1..MaxRetry
    /\ current_requests = 0
    /\ results_cache = <<>>
    /\ batch = <<>>
    /\ analysis_type = "alarm"
    /\ task = <<>>
    /\ bpc = "idle"
    /\ results = <<>>
    /\ collected = {}
    /\ deadline_expired = FALSE
    /\ batches = 0

Tasks == 1..Len(batch)

Finished(i) == task[i].pc \in {"done", "raised"}

\* the workers of the pool that run a task
Running == {i \in Tasks : task[i].pc \notin {"queued", "done", "raised"}}

\* the workers between __enter__ and __exit__ of the rate limiter
InGate == {i \in Tasks : task[i].pc \in {"prompt", "call", "parse", "exit"}}

\* the workers in condition.wait()
Waiting == {i \in Tasks : task[i].pc = "waiting"}

\* CacheHit that looks the key up and never finds it
M_CacheHit_Never(key) == key \in {}

\* cache_key in self.results_cache
CacheHit(key) == key \in DOMAIN results_cache

\* GateFull off by one: > for >=
M_GateFull_OffByOne == current_requests > max_requests

\* the while condition of RateLimiter.__enter__
GateFull == current_requests >= max_requests

\* RaisedReason that keeps the exception of the first attempt
M_RaisedReason_First(errors) == errors[1]

\* the exception _call_api raises after its last attempt failed
RaisedReason(errors) == errors[Len(errors)]

\* analyze_shard_batch is called: every shard is submitted to the pool, then
\* as_completed starts
BatchCall ==
    /\ bpc \in {"idle", "returned", "raised"}
    /\ batches < MaxBatches
    /\ \E n \in 1..MaxBatchLen : \E b \in [1..n -> ShardPool] :
          /\ batch' = b
          /\ task' = [i \in 1..n |-> QueuedTask]
    /\ analysis_type' \in AnalysisTypes
    /\ bpc' = "collecting"
    /\ results' = <<>>
    /\ collected' = {}
    /\ deadline_expired' = FALSE
    /\ batches' = batches + 1
    /\ UNCHANGED <<max_workers, max_requests, retry_times, current_requests, results_cache>>
    /\ UNCHANGED <<packVars, fuseVars, mainVars>>

\* a pool thread takes the next work item of the queue
StartTask(i) ==
    /\ task[i].pc = "queued"
    /\ \A j \in 1..(i - 1) : task[j].pc # "queued"
    /\ Cardinality(Running) < max_workers
    /\ task' = [task EXCEPT ![i].pc = "start"]
    /\ UNCHANGED <<max_workers, max_requests, retry_times, current_requests, results_cache,
                   batch, analysis_type, bpc, results, collected, deadline_expired, batches>>
    /\ UNCHANGED <<packVars, fuseVars, mainVars>>

\* analyze_single_shard, lines 101-108: the cache key and the cache lookup
CheckCache(i) ==
    /\ task[i].pc = "start"
    /\ IF ~batch[i].serializable
       THEN task' = [task EXCEPT ![i].pc = "raised", ![i].exception = "TypeError"]
       ELSE LET cache_key == CacheKey(batch[i], analysis_type)
            IN  IF CacheHit(cache_key)
                THEN task' = [task EXCEPT ![i].pc = "done",
                                          ![i].cached_at_start = TRUE,
                                          ![i].result = results_cache[cache_key]]
                ELSE task' = [task EXCEPT ![i].pc = "enter",
                                          ![i].cached_at_start =
                                              cache_key \in DOMAIN results_cache]
    /\ UNCHANGED <<max_workers, max_requests, retry_times, current_requests, results_cache,
                   batch, analysis_type, bpc, results, collected, deadline_expired, batches>>
    /\ UNCHANGED <<packVars, fuseVars, mainVars>>

\* RateLimiter.__enter__: take a slot, or wait on the condition
Enter(i) ==
    /\ task[i].pc = "enter"
    /\ IF GateFull
       THEN /\ task' = [task EXCEPT ![i].pc = "waiting"]
            /\ UNCHANGED current_requests
       ELSE /\ current_requests' = current_requests + 1
            /\ task' = [task EXCEPT ![i].pc = "prompt",
                                    ![i].acquired = task[i].acquired + 1]
    /\ UNCHANGED <<max_workers, max_requests, retry_times, results_cache,
                   batch, analysis_type, bpc, results, collected, deadline_expired, batches>>
    /\ UNCHANGED <<packVars, fuseVars, mainVars>>

\* _build_prompt: returns the prompt, or raises on a shard it cannot format
BuildPrompt(i) ==
    /\ task[i].pc = "prompt"
    /\ \/ task' = [task EXCEPT ![i].pc = "call"]
       \/ task' = [task EXCEPT ![i].pc = "exit",
                               ![i].result = FailedOutcome(batch[i].shard_id, "prompt error")]
    /\ UNCHANGED <<max_workers, max_requests, retry_times, current_requests, results_cache,
                   batch, analysis_type, bpc, results, collected, deadline_expired, batches>>
    /\ UNCHANGED <<packVars, fuseVars, mainVars>>

\* one attempt of the loop of _call_api
ApiAttempt(i) ==
    /\ task[i].pc = "call"
    /\ \/ \E r \in Responses :
            task' = [task EXCEPT ![i].pc = "parse",
                                 ![i].attempts = task[i].attempts + 1,
                                 ![i].response = r]
       \/ \E e \in FailureReasons :
            LET errors == Append(task[i].errors, e)
            IN  IF Len(errors) < retry_times
                THEN task' = [task EXCEPT ![i].attempts = task[i].attempts + 1,
                                          ![i].errors = errors]
                ELSE task' = [task EXCEPT ![i].pc = "exit",
                                          ![i].attempts = task[i].attempts + 1,
                                          ![i].errors = errors,
                                          ![i].result = FailedOutcome(batch[i].shard_id,
                                                                      RaisedReason(errors))]
    /\ UNCHANGED <<max_workers, max_requests, retry_times, current_requests, results_cache,
                   batch, analysis_type, bpc, results, collected, deadline_expired, batches>>
    /\ UNCHANGED <<packVars, fuseVars, mainVars>>

\* ParseResponse whose cache write replaces the cache by the new entry
M_ParseResponse_CacheReset(i) ==
    /\ task[i].pc = "parse"
    /\ IF task[i].response = "None"
       THEN /\ task' = [task EXCEPT ![i].pc = "exit",
                            ![i].result = FailedOutcome(batch[i].shard_id, "AttributeError")]
            /\ UNCHANGED results_cache
       ELSE LET result == Outcome(batch[i].shard_id, TRUE, task[i].response, "")
                cache_key == CacheKey(batch[i], analysis_type)
            IN  /\ task' = [task EXCEPT ![i].pc = "exit", ![i].result = result]
                /\ results_cache' = (cache_key :> result)
    /\ UNCHANGED <<max_workers, max_requests, retry_times, current_requests,
                   batch, analysis_type, bpc, results, collected, deadline_expired, batches>>
    /\ UNCHANGED <<packVars, fuseVars, mainVars>>

\* ParseResponse that writes the failed outcome into the cache too
M_ParseResponse_CacheFailure(i) ==
    /\ task[i].pc = "parse"
    /\ LET result == IF task[i].response = "None"
                     THEN FailedOutcome(batch[i].shard_id, "AttributeError")
                     ELSE Outcome(batch[i].shard_id, TRUE, task[i].response, "")
           cache_key == CacheKey(batch[i], analysis_type)
       IN  /\ task' = [task EXCEPT ![i].pc = "exit", ![i].result = result]
           /\ results_cache' = (cache_key :> result) @@ results_cache
    /\ UNCHANGED <<max_workers, max_requests, retry_times, current_requests,
                   batch, analysis_type, bpc, results, collected, deadline_expired, batches>>
    /\ UNCHANGED <<packVars, fuseVars, mainVars>>

\* _parse_response and the cache write (lines 120-123); content None raises
ParseResponse(i) ==
    /\ task[i].pc = "parse"
    /\ IF task[i].response = "None"
       THEN /\ task' = [task EXCEPT ![i].pc = "exit",
                            ![i].result = FailedOutcome(batch[i].shard_id, "AttributeError")]
            /\ UNCHANGED results_cache
       ELSE LET result == Outcome(batch[i].shard_id, TRUE, task[i].response, "")
                cache_key == CacheKey(batch[i], analysis_type)
            IN  /\ task' = [task EXCEPT ![i].pc = "exit", ![i].result = result]
                /\ results_cache' = (cache_key :> result) @@ results_cache
    /\ UNCHANGED <<max_workers, max_requests, retry_times, current_requests,
                   batch, analysis_type, bpc, results, collected, deadline_expired, batches>>
    /\ UNCHANGED <<packVars, fuseVars, mainVars>>

\* Exit that gives the slot back only when the body returned, as a release
\* written at the end of the body instead of a with statement would
M_Exit_LeakOnException(i) ==
    /\ task[i].pc = "exit"
    /\ IF task[i].result.success
       THEN /\ current_requests' = current_requests - 1
            /\ IF Waiting = {}
               THEN task' = [task EXCEPT ![i].pc = "done",
                                         ![i].released = task[i].released + 1]
               ELSE \E w \in Waiting :
                      task' = [task EXCEPT ![i].pc = "done",
                                           ![i].released = task[i].released + 1,
                                           ![w].pc = "enter"]
       ELSE /\ task' = [task EXCEPT ![i].pc = "done"]
            /\ UNCHANGED current_requests
    /\ UNCHANGED <<max_workers, max_requests, retry_times, results_cache,
                   batch, analysis_type, bpc, results, collected, deadline_expired, batches>>
    /\ UNCHANGED <<packVars, fuseVars, mainVars>>

\* RateLimiter.__exit__, on return and on an exception alike: give the slot
\* back and notify one waiting worker; analyze_single_shard then returns
Exit(i) ==
    /\ task[i].pc = "exit"
    /\ current_requests' = current_requests - 1
    /\ IF Waiting = {}
       THEN task' = [task EXCEPT ![i].pc = "done",
                                 ![i].released = task[i].released + 1]
       ELSE \E w \in Waiting :
              task' = [task EXCEPT ![i].pc = "done",
                                   ![i].released = task[i].released + 1,
                                   ![w].pc = "enter"]
    /\ UNCHANGED <<max_workers, max_requests, retry_times, results_cache,
                   batch, analysis_type, bpc, results, collected, deadline_expired, batches>>
    /\ UNCHANGED <<packVars, fuseVars, mainVars>>

\* Collect without the except branch of lines 78-85: a future that raised
\* leaves no result
M_Collect_DropRaised(i) ==
    /\ bpc = "collecting"
    /\ i \notin collected
    /\ Finished(i)
    /\ results' = IF task[i].pc = "done" THEN Append(results, task[i].result) ELSE results
    /\ collected' = collected \cup {i}
    /\ UNCHANGED <<max_workers, max_requests, retry_times, current_requests, results_cache,
                   batch, analysis_type, task, bpc, deadline_expired, batches>>
    /\ UNCHANGED <<packVars, fuseVars, mainVars>>

\* one iteration of the loop over as_completed (lines 72-85)
Collect(i) ==
    /\ bpc = "collecting"
    /\ i \notin collected
    /\ Finished(i)
    /\ results' = Append(results,
                     IF task[i].pc = "done" THEN task[i].result
                     ELSE FailedOutcome(batch[i].shard_id, task[i].exception))
    /\ collected' = collected \cup {i}
    /\ UNCHANGED <<max_workers, max_requests, retry_times, current_requests, results_cache,
                   batch, analysis_type, task, bpc, deadline_expired, batches>>
    /\ UNCHANGED <<packVars, fuseVars, mainVars>>

\* every future was yielded: the pool shuts down and the results are returned
BatchReturn ==
    /\ bpc = "collecting"
    /\ collected = Tasks
    /\ bpc' = "returned"
    /\ UNCHANGED <<max_workers, max_requests, retry_times, current_requests, results_cache,
                   batch, analysis_type, task, results, collected, deadline_expired, batches>>
    /\ UNCHANGED <<packVars, fuseVars, mainVars>>

\* as_completed finds worker_timeout passed with futures not yet yielded and
\* raises TimeoutError; the with statement then shuts the pool down, which
\* waits for every worker
Deadline ==
    /\ bpc = "collecting"
    /\ collected # Tasks
    /\ bpc' = "shutdown"
    /\ deadline_expired' = TRUE
    /\ UNCHANGED <<max_workers, max_requests, retry_times, current_requests, results_cache,
                   batch, analysis_type, task, results, collected, batches>>
    /\ UNCHANGED <<packVars, fuseVars, mainVars>>

\* the pool has shut down: TimeoutError leaves analyze_shard_batch
BatchRaise ==
    /\ bpc = "shutdown"
    /\ \A i \in Tasks : Finished(i)
    /\ bpc' = "raised"
    /\ UNCHANGED <<max_workers, max_requests, retry_times, current_requests, results_cache,
                   batch, analysis_type, task, results, collected, deadline_expired, batches>>
    /\ UNCHANGED <<packVars, fuseVars, mainVars>>

NextDispatch ==
    \/ BatchCall
    \/ \E i \in Tasks : StartTask(i)
    \/ \E i \in Tasks : CheckCache(i)
    \/ \E i \in Tasks : Enter(i)
    \/ \E i \in Tasks : BuildPrompt(i)
    \/ \E i \in Tasks : ApiAttempt(i)
    \/ \E i \in Tasks : ParseResponse(i)
    \/ \E i \in Tasks : Exit(i)
    \/ \E i \in Tasks : Collect(i)
    \/ BatchReturn
    \/ Deadline
    \/ BatchRaise

SpecDispatch == InitDispatch /\ [][NextDispatch]_vars

-----------------------------------------------------------------------------
(* Properties of the dispatch *)

ShardIds == {sh.shard_id : sh \in ShardPool}

\* every attempt of task i so far failed, and there was one
AllAttemptsFailed(i) ==
    /\ task[i].attempts > 0
    /\ Len(task[i].errors) = task[i].attempts

\* the outcome a finished task hands to the batch
TaskOutcome(i) ==
    IF task[i].pc = "raised"
    THEN FailedOutcome(batch[i].shard_id, task[i].exception)
    ELSE task[i].result

\* C5: a batch that returns, returns exactly one outcome per submitted shard,
\* whatever the mix of cache hits, successful calls and failing calls: as many
\* outcomes as shards, and each shard id on as many outcomes as shards carry it.
C5_OneOutcomePerShard ==
    bpc = "returned" =>
        /\ Len(results) = Len(batch)
        /\ \A id \in ShardIds :
              Cardinality({k \in 1..Len(results) : results[k].shard_id = id})
                  = Cardinality({i \in Tasks : batch[i].shard_id = id})

\* C5 witness: a returned batch of two shards, one answered from the cache and
\* one whose worker raised.
C5_Witness ==
    /\ bpc = "returned"
    /\ \E i, j \in Tasks :
          /\ task[i].cached_at_start
          /\ task[j].pc = "raised"

\* C6: under every interleaving, the workers between acquiring and releasing a
\* gate slot are at most max_concurrent_requests, and the gate counter is never
\* negative.
C6_GateBound ==
    /\ Cardinality(InGate) <= max_requests
    /\ current_requests >= 0

\* C6 witness: the gate is full and a worker waits for a slot.
C6_Witness ==
    /\ Cardinality(InGate) = max_requests
    /\ Waiting # {}

\* C7: every acquired slot is released exactly once, on the failing paths too:
\* no worker releases more than it acquired, a finished worker has released
\* what it acquired, and once all workers of a batch have finished the gate
\* counter is 0.
C7_SlotsReleased ==
    /\ \A i \in Tasks :
          /\ task[i].released <= task[i].acquired
          /\ task[i].acquired <= 1
          /\ Finished(i) => task[i].released = task[i].acquired
    /\ (\A i \in Tasks : Finished(i)) => current_requests = 0

\* C7 witness: a batch returned after one worker failed on exhausted retries
\* and the other on response parsing, each holding a slot when it failed.
C7_Witness ==
    /\ bpc = "returned"
    /\ current_requests = 0
    /\ \E i, j \in Tasks :
          /\ task[i].acquired = 1
          /\ task[i].result.error_message \in FailureReasons
          /\ task[j].acquired = 1
          /\ task[j].result.error_message = "AttributeError"

\* C8: a worker that finds its cache key in the cache returns the cached
\* outcome at once: it makes no service call, acquires and releases no gate
\* slot, and never waits on the gate.
C8_CacheHitNoDispatch ==
    \A i \in Tasks :
        task[i].cached_at_start =>
            /\ task[i].pc = "done"
            /\ task[i].attempts = 0
            /\ task[i].acquired = 0
            /\ task[i].released = 0
            /\ task[i].result.success
            /\ task[i].result.shard_id = batch[i].shard_id

\* C8 witness: a worker returned a cached outcome while the gate was full.
C8_Witness ==
    \E i, j \in Tasks :
        /\ task[i].cached_at_start
        /\ task[i].pc = "done"
        /\ task[j].pc = "call"
        /\ current_requests = max_requests

\* C9: when every attempt of a shard's service call failed, there were exactly
\* retry_times attempts, and the shard's outcome is success = false with an
\* empty payload and the reason of the last attempt; no call is attempted more
\* than retry_times times; and a batch that returns holds the outcome of every
\* shard, the failed one and the others.
C9_RetryExhausted ==
    /\ \A i \in Tasks :
          /\ task[i].attempts <= retry_times
          /\ (AllAttemptsFailed(i) /\ task[i].pc \in {"exit", "done"}) =>
                /\ task[i].attempts = retry_times
                /\ task[i].result =
                       Outcome(batch[i].shard_id, FALSE, "", task[i].errors[task[i].attempts])
    /\ bpc = "returned" =>
          \A i \in Tasks : \E k \in 1..Len(results) : results[k] = TaskOutcome(i)

\* C9 witness: a returned batch in which one shard failed after two attempts
\* with different reasons and the other shard succeeded.
C9_Witness ==
    /\ bpc = "returned"
    /\ \E i, j \in Tasks :
          /\ task[i].errors = <<"timeout", "rate limit">>
          /\ task[i].pc = "done"
          /\ task[j].result.success
          /\ \E k \in 1..Len(results) : results[k] = task[j].result

\* C10: when the collection deadline expires with shards still in flight, the
\* batch returns: each shard not yet collected is recorded as a failed outcome
\* with a timeout reason, next to the outcomes already collected; the batch
\* neither raises nor waits for the unfinished calls.
C10_DeadlineAdvisory ==
    deadline_expired =>
        /\ bpc = "returned"
        /\ Len(results) = Len(batch)
        /\ \A i \in Tasks \ collected :
              \E k \in 1..Len(results) :
                  results[k] = FailedOutcome(batch[i].shard_id, "timeout")

-----------------------------------------------------------------------------
(* result_fusion.py: numbers *)

\* The confidences, rates and scores of result_fusion.py are Python floats.
\* They are modelled as exact fractions n/d in lowest terms with d > 0, so
\* that equal numbers are equal values. A value that is not a number (a JSON
\* string or null where a number is expected) is NotANumber.

Abs(x) == IF x < 0 THEN -x ELSE x

RECURSIVE GCD(_, _)
GCD(a, b) == IF b = 0 THEN a ELSE GCD(b, a % b)

Number(n, d) ==
    LET g == GCD(Abs(n), Abs(d))
        sign == IF d < 0 THEN -1 ELSE 1
    IN  [n |-> sign * (n \div g), d |-> sign * (d \div g)]

NotANumber == [n |-> 0, d |-> 0]

IsNumber(x) == x.d # 0

Plus(a, b) == Number(a.n * b.d + b.n * a.d, a.d * b.d)

Times(a, b) == Number(a.n * b.n, a.d * b.d)

Quotient(a, b) == Number(a.n * b.d, a.d * b.n)

Less(a, b) == a.n * b.d < b.n * a.d

\* min(a, b) and max(a, b) of Python: the first argument unless the second
\* is smaller (larger)
Min(a, b) == IF Less(b, a) THEN b ELSE a

Max(a, b) == IF Less(a, b) THEN b ELSE a

RECURSIVE Sum(_)
Sum(s) == IF s = <<>> THEN Number(0, 1) ELSE Plus(Head(s), Sum(Tail(s)))

\* statistics.mean of a non-empty list of numbers
Mean(s) == Quotient(Sum(s), Number(Len(s), 1))

-----------------------------------------------------------------------------
(* result_fusion.py: the payloads of the outcomes *)

\* the outcomes of one call of fuse_analysis_results
MaxResults == 4

\* the successful outcomes among them
MaxSuccessful == 2

\* the items of the findings list of one payload
MaxFindings == 2

\* str.lower() on the words of the vocabulary
UpperWords ==
    ("Missing" :> "missing") @@ ("Temperature" :> "temperature") @@
    ("Alarm" :> "alarm") @@ ("ALARM" :> "alarm") @@ ("SAFETY" :> "safety")

Lower(w) == IF w \in DOMAIN UpperWords THEN UpperWords[w] ELSE w

\* A payload is a sequence of pieces of text: words, the characters { and },
\* and the members of a JSON object (what stands between its braces).
Word(w) == [piece |-> "word", word |-> w]

Open == [piece |-> "{"]

Close == [piece |-> "}"]

\* the members of a JSON object whose "findings" member is the list fs
ObjectBody(fs) == [piece |-> "members", findings |-> fs, is_list |-> TRUE]

\* the members of a JSON object whose "findings" member is null
NullFindingsBody == [piece |-> "members", findings |-> <<>>, is_list |-> FALSE]

\* The items a findings list holds. An absent key is a key not in the DOMAIN.
FindingTempAlarm ==
    [type |-> "missing_alarm", severity |-> "high", location |-> "Tank1",
     description |-> <<"missing", "temperature", "alarm">>,
     recommendation |-> "add alarm", confidence |-> Number(9, 10)]

FindingTempSignal ==
    [type |-> "missing_alarm", severity |-> "high", location |-> "Tank2",
     description |-> <<"missing", "temp", "alarm", "signal">>,
     recommendation |-> "add signal", confidence |-> Number(7, 10)]

\* upper-case words, and a confidence above 1
FindingUpperCase ==
    [type |-> "missing_alarm", severity |-> "high",
     description |-> <<"Missing", "Temperature", "Alarm">>,
     confidence |-> Number(2, 1)]

\* half of its words in common with FindingTempSignal; no confidence
FindingShort ==
    [type |-> "missing_alarm", severity |-> "high", location |-> "Tank3",
     description |-> <<"missing", "alarm">>]

\* "confidence": "high", a string
FindingTextConfidence ==
    [type |-> "safety_issue", severity |-> "critical", location |-> "Pump1",
     description |-> <<"pump">>, confidence |-> NotANumber]

\* a severity outside the scale, a confidence below 0, nothing else
FindingNegative ==
    [severity |-> "urgent", confidence |-> Number(-1, 1)]

\* a description of whitespace only
FindingBlank ==
    [type |-> "missing_alarm", severity |-> "high", location |-> "Tank4",
     description |-> <<" ">>, confidence |-> Number(8, 10)]

\* an item that is not a JSON object (a string)
NotAnObject == [nondict |-> TRUE]

FindingItems ==
    {FindingTempAlarm, FindingTempSignal, FindingUpperCase, FindingShort,
     FindingTextConfidence, FindingNegative, FindingBlank, NotAnObject}

FindingLists ==
    UNION {[1..n -> FindingItems] : n \in 0..MaxFindings}

\* the texts of payloads without a JSON object
Texts ==
    { <<Word("missing"), Word("ALARM")>>,
      <<Word("SAFETY"), Word("ok")>>,
      <<Word("Missing"), Word("alarm"), Word("hazard")>>,
      <<Word("missing"), Word("ok")>> }

\* message.content of the successful outcomes
Payloads ==
    \* a JSON object with a findings list
    {<<Open, ObjectBody(fs), Close>> : fs \in FindingLists}
    \* a JSON object after some words
    \cup {<<Word("ok"), Open, ObjectBody(<<FindingTempAlarm>>), Close>>}
    \* a JSON object whose findings member is null
    \cup {<<Open, NullFindingsBody, Close>>}
    \* braces around text that is no JSON
    \cup {<<Open>> \o t \o <<Close>> : t \in Texts}
    \* no brace at all
    \cup Texts
    \* an opening brace only, and a closing brace before the opening one
    \cup {<<Open, Word("safety")>>, <<Close, Word("missing"), Word("alarm"), Open>>}

\* content of a failed outcome: the empty string
EmptyContent == <<>>

\* the shard id of the i-th outcome
ResultShardId(i) == ShardId("data_definition", i)

\* the lists of outcomes dispatch hands to fusion: the outcomes at the
\* positions of ok succeeded with the payloads of content, the others failed
ResultList(n, ok, content) ==
    [i \in 1..n |->
        IF i \in ok
        THEN Outcome(ResultShardId(i), TRUE, content[i], "")
        ELSE Outcome(ResultShardId(i), FALSE, EmptyContent, "timeout")]

-----------------------------------------------------------------------------
(* result_fusion.py: _extract_findings *)

\* dict.get(key, default)
Get(dict, key, default) == IF key \in DOMAIN dict THEN dict[key] ELSE default

\* str.find and str.rfind of one character: its first (last) position, 0
\* when it does not occur (positions count from 1 here, from 0 in Python,
\* where -1 says that it does not occur)
Find(content, p) ==
    IF \E i \in 1..Len(content) : content[i] = p
    THEN CHOOSE i \in 1..Len(content) :
            content[i] = p /\ \A j \in 1..(i - 1) : content[j] # p
    ELSE 0

RFind(content, p) ==
    IF \E i \in 1..Len(content) : content[i] = p
    THEN CHOOSE i \in 1..Len(content) :
            content[i] = p /\ \A j \in (i + 1)..Len(content) : content[j] # p
    ELSE 0

\* json.loads accepts the text: it is one object
IsJson(json_content) ==
    /\ Len(json_content) = 3
    /\ json_content[1] = Open
    /\ json_content[2].piece = "members"
    /\ json_content[3] = Close

\* Finding(...) of lines 118-126. The default location of line 121 is
\* rendered "unknown location".
FindingOf(finding_data, shard_id) ==
    [type |-> Get(finding_data, "type", "unknown"),
     severity |-> Get(finding_data, "severity", "low"),
     location |-> Get(finding_data, "location", "unknown location"),
     description |-> Get(finding_data, "description", <<>>),
     recommendation |-> Get(finding_data, "recommendation", ""),
     confidence |-> Get(finding_data, "confidence", Number(1, 2)),
     source_shards |-> {shard_id},
     frequency |-> 1]

\* the loop of lines 117-127: a finding for each item, until an item that is
\* no object raises AttributeError, which line 134 catches
RECURSIVE FindingsOfItems(_, _)
FindingsOfItems(items, shard_id) ==
    IF items = <<>> THEN <<>>
    ELSE IF "nondict" \in DOMAIN Head(items) THEN <<>>
    ELSE <<FindingOf(Head(items), shard_id)>> \o FindingsOfItems(Tail(items), shard_id)

\* the keywords of lines 149, 150 and 163 that are ASCII words
MissingKeywords == {"missing"}

AlarmKeywords == {"alarm"}

SafetyKeywords == {"safety", "hazard"}

\* the words of result.content.lower()
LowerWords(content) ==
    {Lower(content[i].word) : i \in {j \in 1..Len(content) : content[j].piece = "word"}}

\* _extract_findings_from_text. The descriptions of lines 155 and 168 hold no
\* whitespace: each is one token.
ExtractFindingsFromText(result) ==
    LET content == LowerWords(result.content)
        missing == IF /\ content \cap MissingKeywords # {}
                      /\ content \cap AlarmKeywords # {}
                   THEN << [type |-> "missing_alarm",
                            severity |-> "medium",
                            location |-> "shard " \o result.shard_id,
                            description |-> <<"possible_missing_alarm">>,
                            recommendation |-> "analyse the alarm requirements",
                            confidence |-> Number(6, 10),
                            source_shards |-> {result.shard_id},
                            frequency |-> 1] >>
                   ELSE <<>>
        safety ==  IF content \cap SafetyKeywords # {}
                   THEN << [type |-> "safety_issue",
                            severity |-> "high",
                            location |-> "shard " \o result.shard_id,
                            description |-> <<"possible_safety_issue">>,
                            recommendation |-> "needs a safety analysis",
                            confidence |-> Number(5, 10),
                            source_shards |-> {result.shard_id},
                            frequency |-> 1] >>
                   ELSE <<>>
    IN  missing \o safety

\* json.loads is reached and raises JSONDecodeError (line 129): there is a
\* { with a } after it, and the text from the one to the other is no JSON
UsesTextFallback(content) ==
    LET json_start == Find(content, Open)
        json_end == RFind(content, Close)
    IN  /\ json_start # 0
        /\ json_end > json_start
        /\ ~ IsJson(SubSeq(content, json_start, json_end))

\* the body of the for loop of _extract_findings: what one result adds to
\* all_findings
FindingsOfResult(result) ==
    LET content == result.content
        json_start == Find(content, Open)
        json_end == RFind(content, Close)
    IN  IF UsesTextFallback(content)
        THEN ExtractFindingsFromText(result)
        ELSE IF json_start # 0 /\ json_end > json_start
        THEN LET parsed_result == SubSeq(content, json_start, json_end)[2]
             IN  IF parsed_result.is_list
                 THEN FindingsOfItems(parsed_result.findings, result.shard_id)
                 ELSE <<>>
        ELSE <<>>

-----------------------------------------------------------------------------
(* result_fusion.py: _deduplicate_findings *)

\* the value line 48 gives self.similarity_threshold
SimilarityThreshold == Number(8, 10)

\* set(description.lower().split()): a description is the sequence of its
\* whitespace-separated tokens; a description of whitespace only is the
\* sequence <<" ">>, which split() leaves no token of
DescriptionWords(finding) ==
    {Lower(finding.description[i]) :
        i \in {j \in 1..Len(finding.description) : finding.description[j] # " "}}

\* CalculateSimilarity that takes two descriptions without tokens for equal
\* descriptions
M_CalculateSimilarity_EmptyEqual(finding1, finding2) ==
    LET type_score == IF finding1.type = finding2.type
                      THEN Number(4, 10) ELSE Number(0, 1)
        severity_score == IF finding1.severity = finding2.severity
                          THEN Number(2, 10) ELSE Number(0, 1)
        desc1_words == DescriptionWords(finding1)
        desc2_words == DescriptionWords(finding2)
        common_words == desc1_words \cap desc2_words
        all_words == desc1_words \cup desc2_words
        desc_score == IF all_words # {}
                      THEN Times(Number(4, 10),
                                 Number(Cardinality(common_words), Cardinality(all_words)))
                      ELSE Number(4, 10)
    IN  Plus(Plus(type_score, severity_score), desc_score)

\* CalculateSimilarity that divides the common words by the words of the
\* shorter description, not by the words of both
M_CalculateSimilarity_OverlapOfShorter(finding1, finding2) ==
    LET type_score == IF finding1.type = finding2.type
                      THEN Number(4, 10) ELSE Number(0, 1)
        severity_score == IF finding1.severity = finding2.severity
                          THEN Number(2, 10) ELSE Number(0, 1)
        desc1_words == DescriptionWords(finding1)
        desc2_words == DescriptionWords(finding2)
        common_words == desc1_words \cap desc2_words
        shorter == IF Cardinality(desc1_words) < Cardinality(desc2_words)
                   THEN desc1_words ELSE desc2_words
        desc_score == IF desc1_words # {} /\ desc2_words # {}
                      THEN Times(Number(4, 10),
                                 Number(Cardinality(common_words), Cardinality(shorter)))
                      ELSE Number(0, 1)
    IN  Plus(Plus(type_score, severity_score), desc_score)

\* _calculate_similarity
CalculateSimilarity(finding1, finding2) ==
    LET type_score == IF finding1.type = finding2.type
                      THEN Number(4, 10) ELSE Number(0, 1)
        severity_score == IF finding1.severity = finding2.severity
                          THEN Number(2, 10) ELSE Number(0, 1)
        desc1_words == DescriptionWords(finding1)
        desc2_words == DescriptionWords(finding2)
        common_words == desc1_words \cap desc2_words
        all_words == desc1_words \cup desc2_words
        desc_score == IF desc1_words # {} /\ desc2_words # {}
                      THEN Times(Number(4, 10),
                                 Number(Cardinality(common_words), Cardinality(all_words)))
                      ELSE Number(0, 1)
    IN  Plus(Plus(type_score, severity_score), desc_score)

\* IsSimilar with >= for >
M_IsSimilar_AtLeast(finding1, finding2) ==
    ~ Less(CalculateSimilarity(finding1, finding2), similarity_threshold)

\* the test of line 218
IsSimilar(finding1, finding2) ==
    Less(similarity_threshold, CalculateSimilarity(finding1, finding2))

\* the note line 274 appends to the description, " (at N places)" in the
\* source's language: three tokens
OccurrenceNote(n) == <<"(at", ToString(n), "places)">>

\* _merge_findings raises: statistics.mean (line 268) on a confidence that is
\* not a number
MergeRaises(findings) ==
    /\ Len(findings) > 1
    /\ \E i \in 1..Len(findings) : ~ IsNumber(findings[i].confidence)

\* MergeFindings that keeps the confidence of the first finding
M_MergeFindings_FirstConfidence(findings) ==
    IF Len(findings) = 1 THEN findings[1]
    ELSE LET base == findings[1]
             descriptions == SelectSeq(findings, LAMBDA f : f.description # <<>>)
         IN  [type |-> base.type,
              severity |-> base.severity,
              location |-> base.location,
              description |-> IF Len(descriptions) > 1
                              THEN base.description \o OccurrenceNote(Len(descriptions))
                              ELSE base.description,
              recommendation |-> base.recommendation,
              confidence |-> base.confidence,
              source_shards |-> UNION {findings[i].source_shards : i \in 1..Len(findings)},
              frequency |-> Len(findings)]

\* _merge_findings, where it does not raise
MergeFindings(findings) ==
    IF Len(findings) = 1 THEN findings[1]
    ELSE LET base == findings[1]
             descriptions == SelectSeq(findings, LAMBDA f : f.description # <<>>)
         IN  [type |-> base.type,
              severity |-> base.severity,
              location |-> base.location,
              description |-> IF Len(descriptions) > 1
                              THEN base.description \o OccurrenceNote(Len(descriptions))
                              ELSE base.description,
              recommendation |-> base.recommendation,
              confidence |-> Mean([i \in 1..Len(findings) |-> findings[i].confidence]),
              source_shards |-> UNION {findings[i].source_shards : i \in 1..Len(findings)},
              frequency |-> Len(findings)]

\* the elements of a list at the positions of a set, in the order of the list
RECURSIVE AtPositions(_, _, _)
AtPositions(s, positions, i) ==
    IF i > Len(s) THEN <<>>
    ELSE IF i \in positions THEN <<s[i]>> \o AtPositions(s, positions, i + 1)
    ELSE AtPositions(s, positions, i + 1)

\* SimilarFindings without used_indices.add(j) (line 220): a finding that
\* joined a cluster starts a cluster of its own later
RECURSIVE M_SimilarFindings_NotUsed(_, _, _)
M_SimilarFindings_NotUsed(findings, i, used_indices) ==
    IF i > Len(findings) THEN <<>>
    ELSE IF i \in used_indices
    THEN M_SimilarFindings_NotUsed(findings, i + 1, used_indices)
    ELSE LET joined == {j \in (i + 1)..Len(findings) :
                           j \notin used_indices /\ IsSimilar(findings[i], findings[j])}
         IN  << <<findings[i]>> \o AtPositions(findings, joined, 1) >>
             \o M_SimilarFindings_NotUsed(findings, i + 1, used_indices \cup {i})

\* the loop of _merge_similar_findings from position i on: the lists
\* similar_findings it builds, in order
RECURSIVE SimilarFindings(_, _, _)
SimilarFindings(findings, i, used_indices) ==
    IF i > Len(findings) THEN <<>>
    ELSE IF i \in used_indices THEN SimilarFindings(findings, i + 1, used_indices)
    ELSE LET joined == {j \in (i + 1)..Len(findings) :
                           j \notin used_indices /\ IsSimilar(findings[i], findings[j])}
         IN  << <<findings[i]>> \o AtPositions(findings, joined, 1) >>
             \o SimilarFindings(findings, i + 1, used_indices \cup joined \cup {i})

\* the keys (type, severity) of a list of findings, in order of first
\* appearance: the keys of the dict groups
RECURSIVE GroupKeys(_, _)
GroupKeys(findings, seen) ==
    IF findings = <<>> THEN <<>>
    ELSE LET key == <<Head(findings).type, Head(findings).severity>>
         IN  IF key \in seen THEN GroupKeys(Tail(findings), seen)
             ELSE <<key>> \o GroupKeys(Tail(findings), seen \cup {key})

\* groups[key]
GroupFindings(findings, key) ==
    SelectSeq(findings, LAMBDA f : <<f.type, f.severity>> = key)

\* AllSimilarFindings without the groups of lines 183-189: one pass of
\* _merge_similar_findings over all findings
M_AllSimilarFindings_NoGroups(findings) ==
    SimilarFindings(findings, 1, {})

\* the lists similar_findings of all groups, in the order _deduplicate_findings
\* merges them
AllSimilarFindings(findings) ==
    LET keys == GroupKeys(findings, {})
    IN  Concat([k \in 1..Len(keys) |->
                   SimilarFindings(GroupFindings(findings, keys[k]), 1, {})])

\* _deduplicate_findings raises
DeduplicateRaises(findings) ==
    \E c \in 1..Len(AllSimilarFindings(findings)) :
        MergeRaises(AllSimilarFindings(findings)[c])

\* _deduplicate_findings, where it does not raise
DeduplicateFindings(findings) ==
    LET clusters == AllSimilarFindings(findings)
    IN  [c \in 1..Len(clusters) |-> MergeFindings(clusters[c])]

-----------------------------------------------------------------------------
(* result_fusion.py: _sort_findings, _generate_statistics, _generate_summary,
   _calculate_overall_confidence, _generate_processing_info *)

\* SeverityOrder with a severity outside the scale above critical
M_SeverityOrder_UnknownFirst(severity) ==
    CASE severity = "critical" -> 4
      [] severity = "high" -> 3
      [] severity = "medium" -> 2
      [] severity = "low" -> 1
      [] OTHER -> 5

\* severity_order.get(severity, 0)
SeverityOrder(severity) ==
    CASE severity = "critical" -> 4
      [] severity = "high" -> 3
      [] severity = "medium" -> 2
      [] severity = "low" -> 1
      [] OTHER -> 0

\* the sort key of f is greater than that of g
KeyGreater(f, g) ==
    \/ SeverityOrder(f.severity) > SeverityOrder(g.severity)
    \/ /\ SeverityOrder(f.severity) = SeverityOrder(g.severity)
       /\ \/ Less(g.confidence, f.confidence)
          \/ /\ f.confidence = g.confidence
             /\ f.frequency > g.frequency

KeyEqual(f, g) ==
    /\ SeverityOrder(f.severity) = SeverityOrder(g.severity)
    /\ f.confidence = g.confidence
    /\ f.frequency = g.frequency

\* sorted(findings, key=..., reverse=True): descending, and stable
SortFindings(findings) ==
    LET place(i) == 1 + Cardinality({j \in 1..Len(findings) :
                          \/ KeyGreater(findings[j], findings[i])
                          \/ KeyEqual(findings[j], findings[i]) /\ j < i})
    IN  [p \in 1..Len(findings) |->
            findings[CHOOSE i \in 1..Len(findings) : place(i) = p]]

\* a confidence that is not a number raises TypeError: in sorted (line 291)
\* when two keys are compared down to a string and a number, and if not there
\* then in statistics.mean (line 310)
SortOrStatisticsRaises(findings) ==
    \E i \in 1..Len(findings) : ~ IsNumber(findings[i].confidence)

\* _generate_statistics, the entries fusion reads again
GenerateStatistics(outcomes, findings) ==
    LET total_shards == Len(outcomes)
        successful_shards == Len(SelectSeq(outcomes, LAMBDA r : r.success))
    IN  [total_shards |-> total_shards,
         successful_shards |-> successful_shards,
         success_rate |-> IF total_shards > 0
                          THEN Number(successful_shards, total_shards)
                          ELSE Number(0, 1),
         total_findings |-> Len(findings),
         average_confidence |-> IF findings # <<>>
                                THEN Mean([i \in 1..Len(findings) |-> findings[i].confidence])
                                ELSE Number(0, 1)]

\* Counter(f.type for f in findings), as the list of its items
RECURSIVE FindingTypes(_, _, _)
FindingTypes(findings, i, seen) ==
    IF i > Len(findings) THEN <<>>
    ELSE IF findings[i].type \in seen THEN FindingTypes(findings, i + 1, seen)
    ELSE << <<findings[i].type,
              Len(SelectSeq(findings, LAMBDA f : f.type = findings[i].type))>> >>
         \o FindingTypes(findings, i + 1, seen \cup {findings[i].type})

\* _generate_summary: the parts it joins, each rendered as its fixed text and
\* the values put into it
GenerateSummary(findings) ==
    IF findings = <<>> THEN << <<"no significant problem found">> >>
    ELSE LET critical_count == Len(SelectSeq(findings, LAMBDA f : f.severity = "critical"))
             high_count == Len(SelectSeq(findings, LAMBDA f : f.severity = "high"))
             finding_types == FindingTypes(findings, 1, {})
             main_type == finding_types[CHOOSE k \in 1..Len(finding_types) :
                              /\ \A m \in 1..Len(finding_types) :
                                    finding_types[m][2] <= finding_types[k][2]
                              /\ \A m \in 1..(k - 1) :
                                    finding_types[m][2] < finding_types[k][2]]
         IN  << <<"problems found", ToString(Len(findings))>> >>
             \o (IF critical_count > 0
                 THEN << <<"critical", ToString(critical_count)>> >> ELSE <<>>)
             \o (IF high_count > 0
                 THEN << <<"high priority", ToString(high_count)>> >> ELSE <<>>)
             \o (IF main_type[2] > 1
                 THEN << <<"main type", main_type[1], ToString(main_type[2])>> >>
                 ELSE <<>>)
             \o (IF critical_count + high_count > 0
                 THEN << <<"handle the high priority problems first">> >> ELSE <<>>)

\* the weights of line 396
Weights == <<Number(4, 10), Number(4, 10), Number(2, 10)>>

\* line 381: the success rate among the results passed in
SuccessRate(outcomes) ==
    IF outcomes # <<>>
    THEN Number(Len(SelectSeq(outcomes, LAMBDA r : r.success)), Len(outcomes))
    ELSE Number(0, 1)

\* Clamp that returns the weighted sum as it is
M_Clamp_None(x) == x

\* line 403: min(1.0, max(0.0, x))
Clamp(x) == Min(Number(1, 1), Max(Number(0, 1), x))

\* _calculate_overall_confidence
CalculateOverallConfidence(outcomes, findings) ==
    LET frequencies == [i \in 1..Len(findings) |-> Number(findings[i].frequency, 1)]
        factors ==
            <<SuccessRate(outcomes)>>
            \o (IF findings # <<>>
                THEN <<Mean([i \in 1..Len(findings) |-> findings[i].confidence])>>
                ELSE <<>>)
            \o (IF findings # <<>>
                THEN <<Min(Number(1, 1), Quotient(Mean(frequencies), Number(3, 1)))>>
                ELSE <<>>)
        cut == SubSeq(Weights, 1, Len(factors))
        weights == IF Len(factors) < Len(Weights)
                   THEN [k \in 1..Len(cut) |-> Quotient(cut[k], Sum(cut))]
                   ELSE Weights
    IN  Clamp(Sum([k \in 1..Len(factors) |-> Times(factors[k], weights[k])]))

\* the class of an error message, lines 424-432
ErrorClass(error_message) ==
    CASE error_message = "timeout" -> "timeout"
      [] error_message = "rate limit" -> "rate_limit"
      [] OTHER -> "other"

\* _generate_processing_info
GenerateProcessingInfo(outcomes) ==
    LET failed == SelectSeq(outcomes, LAMBDA r : ~ r.success)
        classes == {ErrorClass(failed[i].error_message) : i \in 1..Len(failed)}
    IN  [total_results |-> Len(outcomes),
         successful_results |-> Len(outcomes) - Len(failed),
         failed_results |-> Len(failed),
         failed_shard_ids |-> [i \in 1..Len(failed) |-> failed[i].shard_id],
         error_summary |-> [c \in classes |->
             Len(SelectSeq(failed, LAMBDA r : ErrorClass(r.error_message) = c))]]

\* the reason of line 68, "all analyses failed" in the source's language
AllFailedReason == "all analyses failed"

\* _create_empty_result; the summary is the fixed text of line 443,
\* "analysis could not be completed: ", followed by the reason
CreateEmptyResult(reason) ==
    [findings |-> <<>>,
     summary |-> <<"analysis could not be completed: ", reason>>,
     overall_confidence |-> Number(0, 1),
     statistics |-> <<>>,
     processing_info |-> [error |-> reason]]

-----------------------------------------------------------------------------
(* fuse_analysis_results as a state machine *)

InitFusion ==
    /\ PackIdle
    /\ DispatchIdle
    /\ FuseIdle
    /\ MainIdle

\* fuse_analysis_results is called on the outcomes of the batches
FuseCall ==
    /\ fpc = "idle"
    /\ \E n \in 0..MaxResults :
       \E ok \in {s \in SUBSET (1..n) : Cardinality(s) <= MaxSuccessful} :
       \E content \in [ok -> Payloads] :
           fusion_results' = ResultList(n, ok, content)
    /\ fpc' = "filter"
    /\ UNCHANGED <<successful_results, extract_index, all_findings,
                   deduplicated_findings, sorted_findings, report>>
    /\ UNCHANGED <<packVars, dispVars, mainVars, similarity_threshold, similar_findings>>

\* FilterSuccessful without the return of lines 67-68: fusion goes on with
\* an empty list
M_FilterSuccessful_NoEarlyReturn ==
    /\ fpc = "filter"
    /\ successful_results' = SelectSeq(fusion_results, LAMBDA r : r.success)
    /\ fpc' = "extract"
    /\ extract_index' = 1
    /\ all_findings' = <<>>
    /\ UNCHANGED <<fusion_results, deduplicated_findings, sorted_findings, report>>
    /\ UNCHANGED <<packVars, dispVars, mainVars, similarity_threshold, similar_findings>>

\* lines 64-68: keep the successful outcomes; with none of them, return the
\* empty report
FilterSuccessful ==
    /\ fpc = "filter"
    /\ successful_results' = SelectSeq(fusion_results, LAMBDA r : r.success)
    /\ IF successful_results' = <<>>
       THEN /\ report' = CreateEmptyResult(AllFailedReason)
            /\ fpc' = "returned"
       ELSE /\ fpc' = "extract"
            /\ UNCHANGED report
    /\ extract_index' = 1
    /\ all_findings' = <<>>
    /\ UNCHANGED <<fusion_results, deduplicated_findings, sorted_findings>>
    /\ UNCHANGED <<packVars, dispVars, mainVars, similarity_threshold, similar_findings>>

\* one iteration of the for loop of _extract_findings
ExtractNext ==
    /\ fpc = "extract"
    /\ extract_index <= Len(successful_results)
    /\ all_findings' =
           all_findings \o FindingsOfResult(successful_results[extract_index])
    /\ extract_index' = extract_index + 1
    /\ UNCHANGED <<fusion_results, fpc, successful_results,
                   deduplicated_findings, sorted_findings, report>>
    /\ UNCHANGED <<packVars, dispVars, mainVars, similarity_threshold, similar_findings>>

\* _extract_findings returns and _deduplicate_findings runs (line 74)
Deduplicate ==
    /\ fpc = "extract"
    /\ extract_index > Len(successful_results)
    /\ IF DeduplicateRaises(all_findings)
       THEN /\ fpc' = "raised"
            /\ UNCHANGED <<deduplicated_findings, similar_findings>>
       ELSE /\ fpc' = "sort"
            /\ similar_findings' = AllSimilarFindings(all_findings)
            /\ deduplicated_findings' = DeduplicateFindings(all_findings)
    /\ UNCHANGED <<fusion_results, successful_results, extract_index, all_findings,
                   sorted_findings, report>>
    /\ UNCHANGED <<packVars, dispVars, mainVars, similarity_threshold>>

\* _sort_findings (line 77)
Sort ==
    /\ fpc = "sort"
    /\ IF SortOrStatisticsRaises(deduplicated_findings)
       THEN /\ fpc' = "raised"
            /\ UNCHANGED sorted_findings
       ELSE /\ fpc' = "report"
            /\ sorted_findings' = SortFindings(deduplicated_findings)
    /\ UNCHANGED <<fusion_results, successful_results, extract_index, all_findings,
                   deduplicated_findings, report>>
    /\ UNCHANGED <<packVars, dispVars, mainVars, similarity_threshold, similar_findings>>

\* lines 80-99: statistics, summary, confidence and processing info, and the
\* report is returned
BuildReport ==
    /\ fpc = "report"
    /\ report' =
           [findings |-> sorted_findings,
            summary |-> GenerateSummary(sorted_findings),
            overall_confidence |->
                CalculateOverallConfidence(successful_results, sorted_findings),
            statistics |-> GenerateStatistics(successful_results, sorted_findings),
            processing_info |-> GenerateProcessingInfo(fusion_results)]
    /\ fpc' = "returned"
    /\ UNCHANGED <<fusion_results, successful_results, extract_index, all_findings,
                   deduplicated_findings, sorted_findings>>
    /\ UNCHANGED <<packVars, dispVars, mainVars, similarity_threshold, similar_findings>>

NextFusion ==
    \/ FuseCall
    \/ FilterSuccessful
    \/ ExtractNext
    \/ Deduplicate
    \/ Sort
    \/ BuildReport

SpecFusion == InitFusion /\ [][NextFusion]_vars

\* the thresholds a caller gives the attribute similarity_threshold: the one
\* of line 48 and a low one
Thresholds == {SimilarityThreshold, Number(1, 10)}

\* a ResultFusion whose similarity_threshold the caller has set
InitFusionThreshold ==
    /\ PackIdle
    /\ DispatchIdle
    /\ MainIdle
    /\ fusion_results = <<>>
    /\ fpc = "idle"
    /\ successful_results = <<>>
    /\ extract_index = 1
    /\ all_findings = <<>>
    /\ deduplicated_findings = <<>>
    /\ sorted_findings = <<>>
    /\ report = NoReport
    /\ similarity_threshold \in Thresholds
    /\ similar_findings = <<>>

SpecFusionThreshold == InitFusionThreshold /\ [][NextFusion]_vars

-----------------------------------------------------------------------------
(* Properties of the fusion *)

NoSuccess == \A i \in 1..Len(fusion_results) : ~ fusion_results[i].success

\* the call has passed the filter of lines 64-68
PastFilter == fpc \notin {"idle", "filter"}

\* the finding line 118 makes of an item of a findings list of the i-th outcome
RawFinding(finding_data, i) == FindingOf(finding_data, ResultShardId(i))

\* C11: fusion of a result list with no successful outcome (every outcome
\* failed, or the list is empty) does not raise and returns a report with no
\* findings, overall_confidence 0.0 and a summary that contains the failure
\* reason.
C11_EmptyReport ==
    (PastFilter /\ NoSuccess) =>
        /\ fpc = "returned"
        /\ report.findings = <<>>
        /\ report.overall_confidence = Number(0, 1)
        /\ \E k \in 1..Len(report.summary) : report.summary[k] = AllFailedReason

\* C11 witness: fusion returned on a list of three outcomes that all failed.
C11_Witness ==
    /\ fpc = "returned"
    /\ Len(fusion_results) = 3
    /\ NoSuccess

\* C12: the overall_confidence of every report fusion returns lies in [0, 1]:
\* with no successful outcome, with successes and no finding (one factor), and
\* with findings (three factors), also when the confidences the service
\* reported for findings lie outside [0, 1].
C12_ConfidenceBounds ==
    fpc = "returned" =>
        /\ IsNumber(report.overall_confidence)
        /\ ~ Less(report.overall_confidence, Number(0, 1))
        /\ ~ Less(Number(1, 1), report.overall_confidence)

\* C12 witness: a report was returned whose only finding has confidence 2, and
\* its overall_confidence is 1.
C12_Witness ==
    /\ fpc = "returned"
    /\ Len(report.findings) = 1
    /\ report.findings[1].confidence = Number(2, 1)
    /\ report.overall_confidence = Number(1, 1)

\* the occurrence counts of a list of findings
Frequencies(findings) == [i \in 1..Len(findings) |-> findings[i].frequency]

\* C13: deduplication is idempotent: _deduplicate_findings applied to its own
\* output merges nothing more; it returns as many findings, with the same
\* occurrence counts.
C13_DedupIdempotent ==
    fpc = "sort" =>
        /\ ~ DeduplicateRaises(deduplicated_findings)
        /\ Len(DeduplicateFindings(deduplicated_findings)) = Len(deduplicated_findings)
        /\ Frequencies(DeduplicateFindings(deduplicated_findings))
               = Frequencies(deduplicated_findings)

\* the payload of a successful outcome gives findings, each with a number as
\* its confidence
WellFormed(result) ==
    /\ FindingsOfResult(result) # <<>>
    /\ \A k \in 1..Len(FindingsOfResult(result)) :
          IsNumber(FindingsOfResult(result)[k].confidence)

\* C14: failed or malformed shards never prevent fusion of the rest. When
\* some successful outcome has well-formed findings, fusion does not raise,
\* whatever the other outcomes are; the findings of the report are those of
\* fusing the successful outcomes alone; and a payload that cannot be processed
\* does not keep the findings of the other successful outcomes from being
\* extracted.
C14_FusionOfTheRest ==
    (/\ PastFilter
     /\ \E i \in 1..Len(successful_results) : WellFormed(successful_results[i])) =>
        /\ fpc # "raised"
        /\ fpc \in {"sort", "report", "returned"} =>
              all_findings =
                  Concat([i \in 1..Len(successful_results) |->
                             FindingsOfResult(successful_results[i])])
        /\ fpc = "returned" =>
              report.findings =
                  SortFindings(DeduplicateFindings(
                      Concat([i \in 1..Len(successful_results) |->
                                 FindingsOfResult(successful_results[i])])))

\* the two findings of the example, extracted from the outcomes 1 and 2
ExampleFindings ==
    <<RawFinding(FindingTempAlarm, 1), RawFinding(FindingTempSignal, 2)>>

\* C15, as claimed: the findings "missing temperature alarm" and "missing temp
\* alarm signal", both missing item and high, have similarity at least 0.8 and
\* deduplication merges them into one finding with occurrence count 2.
C15_ExampleMerged ==
    (fpc = "sort" /\ all_findings = ExampleFindings) =>
        /\ ~ Less(CalculateSimilarity(all_findings[1], all_findings[2]), Number(8, 10))
        /\ Len(deduplicated_findings) = 1
        /\ deduplicated_findings[1].frequency = 2

\* C15, amended: the two findings share 2 of their 5 words, so their
\* similarity is 0.4 + 0.2 + 0.4 * 2/5 = 0.76, which does not exceed the
\* default threshold 0.8: deduplication keeps both, in their order, each with
\* occurrence count 1.
C15_ExampleKeptApart ==
    (fpc = "sort" /\ all_findings = ExampleFindings) =>
        /\ CalculateSimilarity(all_findings[1], all_findings[2]) = Number(76, 100)
        /\ deduplicated_findings = ExampleFindings
        /\ Frequencies(deduplicated_findings) = <<1, 1>>

\* C15 witness: deduplication has run on the two findings of the example.
C15_Witness ==
    /\ fpc = "sort"
    /\ all_findings = ExampleFindings
    /\ Len(deduplicated_findings) = 2


\* the payload holds no text that parses as a JSON object: no { with a } after
\* it, or text between them that is no JSON
Unparseable(content) ==
    ~ (/\ Find(content, Open) # 0
       /\ RFind(content, Close) > Find(content, Open)
       /\ IsJson(SubSeq(content, Find(content, Open), RFind(content, Close))))

\* the findings of a kind and confidence extracted from the shard of an id
FindingsFrom(shard_id, type, confidence) ==
    {k \in 1..Len(all_findings) :
        /\ all_findings[k].source_shards = {shard_id}
        /\ all_findings[k].type = type
        /\ all_findings[k].confidence = confidence}

\* _extract_findings has gone through every successful outcome
Extracted ==
    \/ fpc = "extract" /\ extract_index > Len(successful_results)
    \/ fpc \in {"sort", "report", "raised"}
    \/ fpc = "returned" /\ ~ NoSuccess

\* C17: every successful outcome whose payload cannot be parsed as structured
\* data, be the text between the first { and the last } malformed or be there
\* no such text at all, is scanned for the keywords: with safety or hazard
\* vocabulary it yields one safety-issue finding at confidence 0.5, with
\* missing and alarm vocabulary one missing-item finding at confidence 0.6.
C17_TextFallback ==
    Extracted =>
        \A i \in 1..Len(successful_results) :
            LET result == successful_results[i]
                words == LowerWords(result.content)
            IN  Unparseable(result.content) =>
                   /\ (words \cap SafetyKeywords # {}) =>
                         Cardinality(FindingsFrom(result.shard_id, "safety_issue",
                                                  Number(5, 10))) = 1
                   /\ (words \cap MissingKeywords # {} /\ words \cap AlarmKeywords # {}) =>
                         Cardinality(FindingsFrom(result.shard_id, "missing_alarm",
                                                  Number(6, 10))) = 1

\* C18: the success-rate factor of overall_confidence is the rate of the
\* successful outcomes among all outcomes given to fusion: with a successful
\* outcome and no finding, overall_confidence is that rate (1 success among 4
\* outcomes gives 0.25).
C18_DispatchSuccessRate ==
    (fpc = "returned" /\ ~ NoSuccess /\ report.findings = <<>>) =>
        report.overall_confidence =
            Number(Cardinality({i \in 1..Len(fusion_results) : fusion_results[i].success}),
                   Len(fusion_results))

-----------------------------------------------------------------------------
(* More properties of the packer *)

\* _analyze_dependencies: self.dependencies[element.name], the dependency
\* tokens of an element that name an element of the document
AnalyzeDependencies(element) ==
    {dep_name \in element.dependencies :
        \E i \in 1..Len(AllElements) : AllElements[i].name = dep_name}

\* the shard id of the n-th shard of a group, n < 10, written out
ExpectedId(g, n) ==
    (IF g = "data_definition" THEN "data_def_00" ELSE "prog_logic_00") \o ToString(n)

\* the entities of the example: A without dependencies, B and C depending on
\* A, all of one size, of which the budget takes one and not two
ExampleEntities(l) ==
    /\ Len(l) = 3
    /\ l[1].dependencies = {}
    /\ l[2].dependencies = {l[1].name}
    /\ l[3].dependencies = {l[1].name}
    /\ l[2].size_estimate = l[1].size_estimate
    /\ l[3].size_estimate = l[1].size_estimate
    /\ l[1].size_estimate <= Budget
    /\ Budget < 2 * l[1].size_estimate

\* C16: three entities of one category, A without dependencies and B and C
\* depending on A, of equal size, under a budget that takes one of them and
\* not two (size 10, budget 15), are packed into three shards [A], [B], [C], in
\* that order; shard ids are the category prefix and the zero-padded sequence
\* numbers 001, 002, 003, the sequence starting at 1 in each category.
C16_ExamplePacking ==
    ppc = "done" =>
        \A g \in Groups :
            LET gs == ShardsOf(shards, g)
            IN  /\ ExampleEntities(GroupList(g)) =>
                      /\ Len(gs) = 3
                      /\ \A i \in 1..3 : gs[i].elements = <<GroupList(g)[i]>>
                /\ \A i \in 1..Len(gs) : gs[i].shard_id = ExpectedId(g, i)

\* C16 witness: generation returned on the entities of the example in the
\* data group, with three shards.
C16_Witness ==
    /\ ppc = "done"
    /\ ExampleEntities(all_data_elements)
    /\ Len(shards) = 3

\* the elements of a list that element i depends on, itself apart
InGroupDeps(l, i) ==
    {j \in 1..Len(l) : j # i /\ l[j].name \in l[i].dependencies}

\* the elements of S none of whose dependencies is in S
Eligible(l, S) == {i \in S : InGroupDeps(l, i) \cap S = {}}

\* what is left of S when eligible elements are taken away again and again
RECURSIVE Peel(_, _)
Peel(l, S) == IF Eligible(l, S) = {} THEN S ELSE Peel(l, S \ Eligible(l, S))

\* the dependencies within the list have no cycle
Acyclic(l) == Peel(l, 1..Len(l)) = {}

\* the round in which element i of an acyclic list becomes eligible
RECURSIVE RoundOf(_, _, _, _)
RoundOf(l, i, S, round) ==
    IF i \in Eligible(l, S) THEN round
    ELSE RoundOf(l, i, S \ Eligible(l, S), round + 1)

\* the position of an element in the packing order of its group
PackedAt(g, e) ==
    CHOOSE p \in 1..Len(Members(shards, g)) : Members(shards, g)[p] = e

\* the sequence number of the shard of an element
ShardOf(g, e) ==
    CHOOSE k \in 1..Len(ShardsOf(shards, g)) :
        \E m \in 1..Len(ShardsOf(shards, g)[k].elements) :
            ShardsOf(shards, g)[k].elements[m] = e

\* C19: when the dependencies within a category group have no cycle, every
\* dependency D of an entity E in the same group (D other than E) precedes E in
\* the packing order, so D is in the shard of E or in a shard with a smaller
\* sequence number; entities that become eligible in the same pass keep their
\* extraction order.
C19_DependencyOrder ==
    ppc = "done" =>
        \A g \in Groups :
            LET l == GroupList(g)
            IN  Acyclic(l) =>
                   \A i, j \in 1..Len(l) :
                       /\ j \in InGroupDeps(l, i) =>
                             /\ PackedAt(g, l[j]) < PackedAt(g, l[i])
                             /\ ShardOf(g, l[j]) <= ShardOf(g, l[i])
                       /\ (/\ i < j
                           /\ RoundOf(l, i, 1..Len(l), 1) = RoundOf(l, j, 1..Len(l), 1)) =>
                             PackedAt(g, l[i]) < PackedAt(g, l[j])

\* C19 witness: a data group whose first entity depends on the second and the
\* second on the third was packed into three shards.
C19_Witness ==
    /\ ppc = "done"
    /\ Len(all_data_elements) = 3
    /\ all_data_elements[1].dependencies = {all_data_elements[2].name}
    /\ all_data_elements[2].dependencies = {all_data_elements[3].name}
    /\ all_data_elements[3].dependencies = {}
    /\ Len(shards) = 3

\* C20: the external dependency set of every shard is the union of its
\* members' resolved dependencies (the dependency names that name a known
\* entity) minus the names of its members: it holds no member's name and no
\* token that names no known entity.
C20_ExternalDependencies ==
    \A k \in 1..Len(shards) :
        LET members == shards[k].elements
            names == {members[m].name : m \in 1..Len(members)}
        IN  shards[k].dependencies =
                UNION {AnalyzeDependencies(members[m]) : m \in 1..Len(members)} \ names

-----------------------------------------------------------------------------
(* Properties of the deduplication *)

\* _deduplicate_findings has returned in this call of fuse_analysis_results
Deduplicated == fpc \in {"sort", "report", "returned"} /\ successful_results # <<>>

\* C21: whatever the similarity threshold, the findings merged into one all
\* have the kind and the severity of the first of them, which are the kind
\* and the severity of the merged finding: merging happens only inside a
\* (kind, severity) group.
C21_MergeWithinGroup ==
    Deduplicated =>
        /\ Len(deduplicated_findings) = Len(similar_findings)
        /\ \A c \in 1..Len(similar_findings) :
           \A m \in 1..Len(similar_findings[c]) :
               /\ similar_findings[c][m].type = deduplicated_findings[c].type
               /\ similar_findings[c][m].severity = deduplicated_findings[c].severity
               /\ similar_findings[c][m].type = similar_findings[c][1].type
               /\ similar_findings[c][m].severity = similar_findings[c][1].severity

\* under the low threshold, a finding scores above the threshold against a
\* finding of another kind and against one of another severity, and is
\* merged with neither
C21_Witness ==
    /\ Deduplicated
    /\ similarity_threshold = Number(1, 10)
    /\ \E i, j, k \in 1..Len(all_findings) :
        /\ all_findings[i].type # all_findings[j].type
        /\ all_findings[i].severity # all_findings[k].severity
        /\ Less(similarity_threshold,
                CalculateSimilarity(all_findings[i], all_findings[j]))
        /\ Less(similarity_threshold,
                CalculateSimilarity(all_findings[i], all_findings[k]))
    /\ \E c \in 1..Len(deduplicated_findings) : deduplicated_findings[c].frequency > 1

\* the confidences of a list of findings
Confidences(findings) == [i \in 1..Len(findings) |-> findings[i].confidence]

\* C22: a merged finding has the kind, severity, location and recommendation
\* of the first finding of its cluster, the size of the cluster as its
\* occurrence count, the mean of the members' confidences, the union of the
\* members' source shard ids, and the first member's description, followed
\* by the note "(at N places)" exactly when the cluster has N > 1 members.
C22_MergedFinding ==
    Deduplicated =>
        /\ Len(deduplicated_findings) = Len(similar_findings)
        /\ \A c \in 1..Len(similar_findings) :
            LET members == similar_findings[c]
                merged == deduplicated_findings[c]
                N == Len(members)
            IN  /\ N >= 1
                /\ merged.type = members[1].type
                /\ merged.severity = members[1].severity
                /\ merged.location = members[1].location
                /\ merged.recommendation = members[1].recommendation
                /\ merged.frequency = N
                /\ (\A m \in 1..N : IsNumber(members[m].confidence))
                       => merged.confidence = Mean(Confidences(members))
                /\ merged.source_shards = UNION {members[m].source_shards : m \in 1..N}
                /\ merged.description =
                       IF N > 1
                       THEN members[1].description \o <<"(at", ToString(N), "places)">>
                       ELSE members[1].description

\* a cluster of findings from two shards, with different confidences and
\* locations, has been merged
C22_Witness ==
    /\ Deduplicated
    /\ \E c \in 1..Len(similar_findings) :
        /\ Len(similar_findings[c]) = 2
        /\ similar_findings[c][1].confidence # similar_findings[c][2].confidence
        /\ similar_findings[c][1].location # similar_findings[c][2].location
        /\ similar_findings[c][1].source_shards # similar_findings[c][2].source_shards
        /\ deduplicated_findings[c].frequency = 2
        /\ Len(deduplicated_findings[c].description)
               = Len(similar_findings[c][1].description) + 3

-----------------------------------------------------------------------------
(* Properties of the order of the report *)

\* the rank of a severity in the report
Rank(severity) ==
    IF severity = "critical" THEN 4
    ELSE IF severity = "high" THEN 3
    ELSE IF severity = "medium" THEN 2
    ELSE IF severity = "low" THEN 1
    ELSE 0

\* f may stand before g in the report: its key (rank, confidence, occurrence
\* count) is not below that of g
NotBelow(f, g) ==
    \/ Rank(f.severity) > Rank(g.severity)
    \/ /\ Rank(f.severity) = Rank(g.severity)
       /\ \/ Less(g.confidence, f.confidence)
          \/ /\ ~ Less(f.confidence, g.confidence)
             /\ f.frequency >= g.frequency

\* two lists hold the same elements, each as many times
SameBag(s, t) ==
    /\ Len(s) = Len(t)
    /\ \A i \in 1..Len(s) : Occurrences(s[i], s) = Occurrences(s[i], t)

\* fuse_analysis_results has returned a report of findings
Reported == fpc = "returned" /\ successful_results # <<>>

\* C23: the findings of the report are in descending order of (severity rank,
\* confidence, occurrence count), a severity outside the scale having rank 0,
\* and they are the deduplicated findings, none dropped and none twice.
C23_ReportOrder ==
    /\ fpc \in {"report", "returned"} /\ successful_results # <<>> =>
        /\ SameBag(sorted_findings, deduplicated_findings)
        /\ \A i \in 1..(Len(sorted_findings) - 1) :
               NotBelow(sorted_findings[i], sorted_findings[i + 1])
    /\ Reported => report.findings = sorted_findings

\* a report of three findings that the sort has reordered: the first two
\* differ in the occurrence count only, and the last has a severity outside
\* the scale
C23_Witness ==
    /\ Reported
    /\ Len(report.findings) = 3
    /\ report.findings # deduplicated_findings
    /\ Rank(report.findings[1].severity) = Rank(report.findings[2].severity)
    /\ report.findings[1].confidence = report.findings[2].confidence
    /\ report.findings[1].frequency > report.findings[2].frequency
    /\ Rank(report.findings[3].severity) = 0

-----------------------------------------------------------------------------
(* Properties of the similarity test *)

\* the token overlap of two descriptions, |common| / |all|, 0 where a
\* description has no token
Overlap(f, g) ==
    LET F == DescriptionWords(f)
        G == DescriptionWords(g)
    IN  IF F = {} \/ G = {} THEN Number(0, 1)
        ELSE Number(Cardinality(F \cap G), Cardinality(F \cup G))

\* the clusters of the (kind, severity) group of cluster c that were built
\* after it: their findings were not yet assigned when c was built
LaterClusters(c) ==
    {d \in (c + 1)..Len(similar_findings) :
        /\ similar_findings[d][1].type = similar_findings[c][1].type
        /\ similar_findings[d][1].severity = similar_findings[c][1].severity}

\* C24 as claimed: under the default threshold a finding joins the cluster of
\* an earlier finding of its group exactly when its token overlap with the
\* first member of the cluster is at least 1/2; an overlap of exactly 1/2
\* merges.
C24_MergeAtHalf ==
    Deduplicated =>
        \A c \in 1..Len(similar_findings) :
            /\ \A m \in 2..Len(similar_findings[c]) :
                   ~ Less(Overlap(similar_findings[c][1], similar_findings[c][m]),
                          Number(1, 2))
            /\ \A d \in LaterClusters(c) :
               \A m \in 1..Len(similar_findings[d]) :
                   Less(Overlap(similar_findings[c][1], similar_findings[d][m]),
                        Number(1, 2))

\* C24, amended: under the default threshold a finding joins the cluster of
\* an earlier finding of its group exactly when its token overlap with the
\* first member of the cluster is above 1/2; an overlap of exactly 1/2 gives
\* the similarity 0.8, which does not exceed the threshold, and does not
\* merge.
C24_MergeAboveHalf ==
    Deduplicated =>
        \A c \in 1..Len(similar_findings) :
            /\ \A m \in 2..Len(similar_findings[c]) :
                   Less(Number(1, 2),
                        Overlap(similar_findings[c][1], similar_findings[c][m]))
            /\ \A d \in LaterClusters(c) :
               \A m \in 1..Len(similar_findings[d]) :
                   ~ Less(Number(1, 2),
                          Overlap(similar_findings[c][1], similar_findings[d][m]))

\* two findings of one group with an overlap of exactly 1/2 have been kept
\* apart, and two with a larger overlap have been merged
C24_Witness ==
    /\ Deduplicated
    /\ \E c \in 1..Len(similar_findings) : \E d \in LaterClusters(c) :
           /\ Overlap(similar_findings[c][1], similar_findings[d][1]) = Number(1, 2)
           /\ CalculateSimilarity(similar_findings[c][1], similar_findings[d][1])
                  = SimilarityThreshold
    /\ \E c \in 1..Len(similar_findings) : Len(similar_findings[c]) > 1

-----------------------------------------------------------------------------
(* Properties of the clusters *)

\* the sum of a list of numbers
RECURSIVE Total(_)
Total(s) == IF s = <<>> THEN 0 ELSE Head(s) + Total(Tail(s))

\* the members of all clusters, in order
ClusterMembers == Concat(similar_findings)

\* C29: one deduplication of raw findings, each of occurrence count 1,
\* conserves them: every raw finding is a member of exactly one cluster, the
\* occurrence counts of the deduplicated findings add up to the number of raw
\* findings, and the deduplicated findings are no more than the raw ones.
C29_DedupConserves ==
    Deduplicated =>
        /\ \A i \in 1..Len(all_findings) : all_findings[i].frequency = 1
        /\ SameBag(ClusterMembers, all_findings)
        /\ Total(Frequencies(deduplicated_findings)) = Len(all_findings)
        /\ Len(deduplicated_findings) <= Len(all_findings)

\* four raw findings of which three were merged into one
C29_Witness ==
    /\ Deduplicated
    /\ Len(all_findings) = 4
    /\ Len(deduplicated_findings) = 2
    /\ \E c \in 1..2 : deduplicated_findings[c].frequency = 3

\* C30: under the default threshold a finding whose description has no
\* token (it is empty, or whitespace only) scores at most 0.6 against any
\* other finding, also one equal to it in every field, and is merged with
\* none: it stays a finding of its own with occurrence count 1.
C30_NoTokensNoMerge ==
    Deduplicated =>
        /\ \A i, j \in 1..Len(all_findings) :
               i # j /\ DescriptionWords(all_findings[i]) = {} =>
                   /\ ~ Less(Number(6, 10),
                             CalculateSimilarity(all_findings[i], all_findings[j]))
                   /\ ~ Less(Number(6, 10),
                             CalculateSimilarity(all_findings[j], all_findings[i]))
        /\ \A c \in 1..Len(similar_findings) :
               (\E m \in 1..Len(similar_findings[c]) :
                    DescriptionWords(similar_findings[c][m]) = {})
               => /\ Len(similar_findings[c]) = 1
                  /\ deduplicated_findings[c] = similar_findings[c][1]
                  /\ deduplicated_findings[c].frequency = 1
        /\ Len(SelectSeq(deduplicated_findings, LAMBDA f : DescriptionWords(f) = {}))
               = Len(SelectSeq(all_findings, LAMBDA f : DescriptionWords(f) = {}))

\* two findings with an empty description and two with a description of
\* whitespace, pairwise equal but for the shard, are four findings still
C30_Witness ==
    /\ Deduplicated
    /\ Len(all_findings) = 4
    /\ Len(deduplicated_findings) = 4
    /\ all_findings[1].description = <<>>
    /\ all_findings[2].description = <<" ">>
    /\ all_findings[3].description = <<>>
    /\ all_findings[4].description = <<" ">>
    /\ all_findings[1].type = all_findings[3].type
    /\ all_findings[2].severity = all_findings[4].severity

-----------------------------------------------------------------------------
(* Properties of the cache *)

\* the fingerprint of the shard of task i
KeyOf(i) == CacheKey(batch[i], analysis_type)

\* task i missed the cache and called the service
MissedAndCalled(i) ==
    /\ batch[i].serializable
    /\ ~ task[i].cached_at_start
    /\ task[i].attempts > 0

\* tasks i and j of a batch have the same fingerprint, both missed the cache
\* and both called the service
Raced(i, j) ==
    /\ i # j
    /\ MissedAndCalled(i)
    /\ MissedAndCalled(j)
    /\ KeyOf(i) = KeyOf(j)

\* the step is the cache lookup of task i, on a shard that has a fingerprint
LooksUp(i) ==
    /\ task[i].pc = "start"
    /\ batch[i].serializable
    /\ UNCHANGED <<batch, analysis_type>>
    /\ task'[i].pc # "start"

C28_CacheHoldsSuccesses ==
    /\ [](\A key \in DOMAIN results_cache :
             /\ results_cache[key].success
             /\ results_cache[key].error_message = "")
    /\ [][results_cache' # results_cache =>
             \E i \in Tasks :
                 /\ task[i].pc = "parse"
                 /\ task[i].attempts > Len(task[i].errors)
                 /\ task[i].response # "None"
                 /\ task'[i].result.success
                 /\ results_cache' = (KeyOf(i) :> task'[i].result) @@ results_cache]_vars
    /\ [][\A i \in Tasks :
             /\ UNCHANGED batch
             /\ task'[i].result # task[i].result
             /\ ~ task'[i].result.success
             => UNCHANGED results_cache]_vars
    /\ [][\A i \in Tasks :
             LooksUp(i) /\ KeyOf(i) \notin DOMAIN results_cache =>
                 task'[i].pc = "enter"]_vars

\* the one worker of the pool ran a shard whose calls all failed; the cache
\* is empty, and the same shard, next in the batch, is at the service again
C28_Witness ==
    /\ max_workers = 1
    /\ Len(batch) = 2
    /\ batch[1] = batch[2]
    /\ task[1].pc = "done"
    /\ AllAttemptsFailed(1)
    /\ ~ task[1].result.success
    /\ KeyOf(1) \notin DOMAIN results_cache
    /\ task[2].pc = "call"
    /\ ~ task[2].cached_at_start

-----------------------------------------------------------------------------
(* Dispatch under fair scheduling *)

\* The scheduler lets every thread that can take a step take it, a call of
\* the service ends (ApiAttempt), and the thread of analyze_shard_batch goes
\* on when it can. Nothing makes the deadline pass or a further batch come.
FairDispatch ==
    /\ \A i \in 1..MaxBatchLen :
        /\ WF_vars(i \in Tasks /\ StartTask(i))
        /\ WF_vars(i \in Tasks /\ CheckCache(i))
        /\ WF_vars(i \in Tasks /\ Enter(i))
        /\ WF_vars(i \in Tasks /\ BuildPrompt(i))
        /\ WF_vars(i \in Tasks /\ ApiAttempt(i))
        /\ WF_vars(i \in Tasks /\ ParseResponse(i))
        /\ WF_vars(i \in Tasks /\ Exit(i))
        /\ WF_vars(i \in Tasks /\ Collect(i))
    /\ WF_vars(BatchReturn)
    /\ WF_vars(BatchRaise)

SpecDispatchFair == InitDispatch /\ [][NextDispatch]_vars /\ FairDispatch

\* no worker waits on the gate forever, and the worker of every submitted
\* shard finishes
GateLiveness ==
    \A i \in 1..MaxBatchLen : \A k \in 1..MaxBatches :
        /\ (batches = k /\ i \in Tasks /\ task[i].pc = "waiting")
               ~> (batches = k /\ i \in Tasks /\ task[i].pc # "waiting")
        /\ (batches = k /\ i \in Tasks)
               ~> (batches = k /\ i \in Tasks /\ Finished(i))

\* C27: with a gate of at least one slot and calls of the service that end,
\* under fair scheduling no worker waits on the gate forever, the worker of
\* every submitted shard finishes, and the batch returns.
C27_BatchReturns ==
    /\ GateLiveness
    /\ \A k \in 1..MaxBatches :
           (batches = k /\ bpc = "collecting") ~> (batches = k /\ bpc = "returned")

-----------------------------------------------------------------------------
(* main.py: analyze_file, the loop over the batches *)

\* the most shards of a file
MaxShards == 3

\* the largest batch_size a configuration sets
MaxBatchSize == 2

\* the dict analyze_file builds of the k-th shard of the parser (lines 72-89):
\* lists and strings, which json.dumps serializes, and an id of its own
ShardDict(k) ==
    [shard_id |-> ShardId("data_definition", k), content |-> "v1", serializable |-> TRUE]

\* analyze_file has parsed a file into shards (it returns at line 62 if there
\* are none) and is at the for statement of line 96
InitAnalyze ==
    /\ PackIdle
    /\ FuseIdle
    /\ max_workers \in 1..MaxWorkers
    /\ max_requests \in 1..MaxRequests
    /\ retry_times \in 1..MaxRetry
    /\ current_requests = 0
    /\ results_cache = <<>>
    /\ batch = <<>>
    /\ analysis_type \in AnalysisTypes
    /\ task = <<>>
    /\ bpc = "idle"
    /\ results = <<>>
    /\ collected = {}
    /\ deadline_expired = FALSE
    /\ batches = 0
    /\ \E n \in 1..MaxShards : shard_dicts = [k \in 1..n |-> ShardDict(k)]
    /\ batch_size \in 1..MaxBatchSize
    /\ batch_start = 0
    /\ all_results = <<>>
    /\ mpc = "loop"
    /\ pauses = 0
    /\ dispatched = <<>>

\* shard_dicts[i:i+batch_size]
BatchSlice(i) ==
    SubSeq(shard_dicts, i + 1,
           IF i + batch_size < Len(shard_dicts) THEN i + batch_size ELSE Len(shard_dicts))

\* lines 96-100: the next batch is cut and analyze_shard_batch is called,
\* which submits every shard of it to the pool
AnalyzeBatch ==
    /\ mpc = "loop"
    /\ batch_start < Len(shard_dicts)
    /\ batch' = BatchSlice(batch_start)
    /\ task' = [i \in 1..Len(BatchSlice(batch_start)) |-> QueuedTask]
    /\ dispatched' = Append(dispatched, BatchSlice(batch_start))
    /\ bpc' = "collecting"
    /\ results' = <<>>
    /\ collected' = {}
    /\ deadline_expired' = FALSE
    /\ batches' = batches + 1
    /\ mpc' = "batch"
    /\ UNCHANGED <<max_workers, max_requests, retry_times, current_requests, results_cache,
                   analysis_type>>
    /\ UNCHANGED <<shard_dicts, batch_size, batch_start, all_results, pauses>>
    /\ UNCHANGED <<packVars, fuseVars>>

\* BatchDone that sleeps after the last batch too
M_BatchDone_PauseAlways ==
    /\ mpc = "batch"
    /\ bpc = "returned"
    /\ all_results' = all_results \o results
    /\ pauses' = pauses + 1
    /\ batch_start' = batch_start + batch_size
    /\ mpc' = "loop"
    /\ UNCHANGED <<shard_dicts, batch_size, dispatched>>
    /\ UNCHANGED <<packVars, dispVars, fuseVars>>

\* lines 100-105: analyze_shard_batch has returned; its outcomes are added to
\* all_results, and time.sleep(2) follows if shards are left
BatchDone ==
    /\ mpc = "batch"
    /\ bpc = "returned"
    /\ all_results' = all_results \o results
    /\ pauses' = IF batch_start + batch_size < Len(shard_dicts)
                 THEN pauses + 1 ELSE pauses
    /\ batch_start' = batch_start + batch_size
    /\ mpc' = "loop"
    /\ UNCHANGED <<shard_dicts, batch_size, dispatched>>
    /\ UNCHANGED <<packVars, dispVars, fuseVars>>

\* line 109: the loop is over and all_results goes to fuse_analysis_results
Fuse ==
    /\ mpc = "loop"
    /\ batch_start >= Len(shard_dicts)
    /\ mpc' = "fuse"
    /\ UNCHANGED <<shard_dicts, batch_size, batch_start, all_results, pauses, dispatched>>
    /\ UNCHANGED <<packVars, dispVars, fuseVars>>

\* line 131: analyze_shard_batch has raised; analyze_file logs the error and
\* returns False
AnalyzeFails ==
    /\ mpc = "batch"
    /\ bpc = "raised"
    /\ mpc' = "failed"
    /\ UNCHANGED <<shard_dicts, batch_size, batch_start, all_results, pauses, dispatched>>
    /\ UNCHANGED <<packVars, dispVars, fuseVars>>

NextAnalyze ==
    \/ AnalyzeBatch
    \/ \E i \in Tasks : StartTask(i)
    \/ \E i \in Tasks : CheckCache(i)
    \/ \E i \in Tasks : Enter(i)
    \/ \E i \in Tasks : BuildPrompt(i)
    \/ \E i \in Tasks : ApiAttempt(i)
    \/ \E i \in Tasks : ParseResponse(i)
    \/ \E i \in Tasks : Exit(i)
    \/ \E i \in Tasks : Collect(i)
    \/ BatchReturn
    \/ Deadline
    \/ BatchRaise
    \/ BatchDone
    \/ Fuse
    \/ AnalyzeFails

SpecAnalyze == InitAnalyze /\ [][NextAnalyze]_vars

\* the shards of the batches passed to analyze_shard_batch so far, in order
Submitted == Concat(dispatched)

\* C25: analyze_file passes the shards to analyze_shard_batch in consecutive
\* batches of batch_size, in shard order, so that every shard is in exactly
\* one batch; while a batch is in flight the outcomes of all shards of the
\* batches before it are in all_results and a pause has followed each of
\* those batches; between two batches no worker runs; no pause follows the
\* last batch; and if no batch raises, fusion gets one outcome per shard.
C25_Batching ==
    /\ mpc \in {"loop", "batch", "fuse", "failed"} =>
        /\ Submitted = SubSeq(shard_dicts, 1, Len(Submitted))
        /\ \A k \in 1..Len(dispatched) :
            /\ Len(dispatched[k]) >= 1
            /\ Len(dispatched[k]) <= batch_size
            /\ k < Len(dispatched) => Len(dispatched[k]) = batch_size
            /\ Len(dispatched[k]) < batch_size => Len(Submitted) = Len(shard_dicts)
    /\ mpc = "batch" =>
        /\ batch = dispatched[Len(dispatched)]
        /\ Len(all_results) = Len(Submitted) - Len(batch)
        /\ \A j \in 1..Len(all_results) : \E l \in 1..Len(all_results) :
               /\ all_results[l].shard_id = Submitted[j].shard_id
               /\ (l - 1) \div batch_size = (j - 1) \div batch_size
        /\ pauses = Len(dispatched) - 1
    /\ mpc \in {"loop", "fuse", "failed"} => \A i \in Tasks : Finished(i)
    /\ mpc = "fuse" =>
        /\ Submitted = shard_dicts
        /\ Len(all_results) = Len(shard_dicts)
        /\ \A j \in 1..Len(shard_dicts) :
               Cardinality({l \in 1..Len(all_results) :
                               all_results[l].shard_id = shard_dicts[j].shard_id}) = 1
        /\ pauses = Len(dispatched) - 1

\* three shards went to fusion in a batch of two and a batch of one, with
\* one pause between them
C25_Witness ==
    /\ mpc = "fuse"
    /\ Len(shard_dicts) = 3
    /\ batch_size = 2
    /\ Len(dispatched) = 2
    /\ pauses = 1
    /\ Len(all_results) = 3

=============================================================================
